---------------------------- MODULE Spec2Model ----------------------------
(***************************************************************************)
(* Easy3D dense small-matrix core (easy3d/core/mat.h): Gauss-Jordan        *)
(* elimination, generic inverse, LU decomposition and back substitution,  *)
(* Cholesky decomposition and the closed-form Mat2/Mat3/Mat4 determinant  *)
(* and inverse.                                                            *)
(*                                                                         *)
(* The scalar type T is modelled by exact rational arithmetic: a value is  *)
(* a pair <<p, q>> in lowest terms with q > 0.  The pairs with q = 0 are   *)
(* the non-finite results of a division by zero: <<1,0>> is +Inf,          *)
(* <<-1,0>> is -Inf and <<0,0>> is NaN.  The values are exact; where the   *)
(* rounding of T decides what the code does (which of two candidates of    *)
(* equal magnitude is the pivot, whether an element that cancels to zero   *)
(* is stored as zero) every outcome is a step of the model.  A zero        *)
(* carries its sign only where the code divides by it: <<0,-1>> is the     *)
(* negative zero of the closed-form determinants, whose reciprocal is      *)
(* -Inf.  Everywhere else a zero is <<0,1>>, as == does not tell the two   *)
(* zeros apart.  <<1,-1>> is an indeterminate value: what a read of an     *)
(* object that was never assigned, or of memory outside an object, finds.  *)
(* Every such read is indeterminate by itself, and so is every result      *)
(* computed from one.                                                      *)
(***************************************************************************)
EXTENDS Integers, Sequences, FiniteSets, TLC

(***************************************************************************)
(* Bounds of the model.                                                    *)
(***************************************************************************)
\* matrix entries of the inputs are the integers -1 .. MaxEntry
MaxEntry == 2
\* number of sampled 3 x 3 input matrices
Samples3 == 120
\* number of sampled 4 x 4 input matrices
Samples4 == 40
\* number of right-hand sides tried with each matrix
NumRhs == 2
\* number of sampled lower-triangular factors per dimension (Cholesky inputs)
SamplesChol == 30
\* a Cholesky input differs from a product L0 * transpose(L0) in at most one
\* element, by at most MaxShift
MaxShift == 4
\* the other matrix functions are called with matrices of 1 .. MaxDim rows and columns
MaxDim == 3
\* number of sampled matrices per shape
SamplesRect == 6

(***************************************************************************)
(* Scalar arithmetic of T.                                                 *)
(***************************************************************************)
Abs(k) == IF k < 0 THEN -k ELSE k

RECURSIVE Gcd(_, _)
Gcd(x, y) == IF y = 0 THEN x ELSE Gcd(y, x % y)

Sign(k) == IF k < 0 THEN -1 ELSE IF k > 0 THEN 1 ELSE 0

\* the value p/q; a zero denominator gives the IEEE result of the division
Norm(p, q) ==
    IF q = 0 THEN <<Sign(p), 0>>
    ELSE LET g == Gcd(Abs(p), Abs(q))
         IN  IF q < 0 THEN <<-(p \div g), (-q) \div g>>
                      ELSE <<p \div g, q \div g>>

Zero == <<0, 1>>
One == <<1, 1>>
NaN == <<0, 0>>
FromInt(k) == <<k, 1>>

Indeterminate == <<1, -1>>

IsFinite(x) == x[2] # 0
IsNaN(x) == x = NaN

RNeg(x) == IF x = Indeterminate THEN x ELSE <<-x[1], x[2]>>

RAbs(x) == IF x = Indeterminate THEN x ELSE <<Abs(x[1]), x[2]>>

RAdd(x, y) ==
    IF x = Indeterminate \/ y = Indeterminate THEN Indeterminate
    ELSE IF IsFinite(x) /\ IsFinite(y)
    THEN LET g == Gcd(x[2], y[2])
         IN  Norm(x[1] * (y[2] \div g) + y[1] * (x[2] \div g), (x[2] \div g) * y[2])
    ELSE IF IsNaN(x) \/ IsNaN(y) THEN NaN
    ELSE IF IsFinite(x) THEN y
    ELSE IF IsFinite(y) THEN x
    ELSE IF x = y THEN x ELSE NaN

RSub(x, y) == RAdd(x, RNeg(y))

RMul(x, y) ==
    IF x = Indeterminate \/ y = Indeterminate THEN Indeterminate
    ELSE IF IsFinite(x) /\ IsFinite(y)
    THEN LET g1 == Gcd(Abs(x[1]), y[2])
             g2 == Gcd(Abs(y[1]), x[2])
         IN  Norm((x[1] \div g1) * (y[1] \div g2), (x[2] \div g2) * (y[2] \div g1))
    ELSE IF IsNaN(x) \/ IsNaN(y) THEN NaN
    ELSE <<Sign(x[1]) * Sign(y[1]), 0>>

RDiv(x, y) ==
    IF x = Indeterminate \/ y = Indeterminate THEN Indeterminate
    ELSE IF IsFinite(x) /\ IsFinite(y)
    THEN IF y[1] = 0 THEN <<Sign(x[1]), 0>>
         ELSE RMul(x, IF y[1] < 0 THEN <<-y[2], -y[1]>> ELSE <<y[2], y[1]>>)
    ELSE IF IsNaN(x) \/ IsNaN(y) THEN NaN
    ELSE IF IsFinite(x) THEN Zero
    ELSE IF IsFinite(y) THEN <<Sign(x[1]) * (IF y[1] < 0 THEN -1 ELSE 1), 0>>
    ELSE NaN

\* x < y; every comparison with NaN is false
RLt(x, y) ==
    IF IsNaN(x) \/ IsNaN(y) THEN FALSE
    ELSE IF IsFinite(x) /\ IsFinite(y)
         THEN LET g == Gcd(x[2], y[2])
              IN  x[1] * (y[2] \div g) < y[1] * (x[2] \div g)
    ELSE IF IsFinite(x) THEN y[1] > 0
    ELSE IF IsFinite(y) THEN x[1] < 0
    ELSE x[1] < y[1]

RGt(x, y) == RLt(y, x)

RGe(x, y) == ~IsNaN(x) /\ ~IsNaN(y) /\ ~RLt(x, y)

\* infix notation for the closed-form expressions; ++ and -- are left
\* associative, -- binds tighter than ++ , ** tighter than both
x ++ y == RAdd(x, y)
x -- y == RSub(x, y)
x ** y == RMul(x, y)

\* IEEE arithmetic that keeps the sign of a zero result: a product or a
\* quotient has the sign of its operands' signs, a sum is -0 only when both
\* operands are -0 (x + (-x) is +0), and a difference x - y, being x + (-y),
\* only when x is -0 and y is +0
NegZero == <<0, -1>>
Plain(x) == IF x = NegZero THEN Zero ELSE x
IsNegative(x) == x = NegZero \/ x[1] < 0

SAdd(x, y) ==
    LET v == RAdd(Plain(x), Plain(y))
    IN  IF v = Zero /\ x = NegZero /\ y = NegZero THEN NegZero ELSE v

SSub(x, y) ==
    LET v == RSub(Plain(x), Plain(y))
    IN  IF v = Zero /\ x = NegZero /\ y = Zero THEN NegZero ELSE v

SMul(x, y) ==
    LET v == RMul(Plain(x), Plain(y))
    IN  IF v = Zero /\ IsNegative(x) # IsNegative(y) THEN NegZero ELSE v

SDiv(x, y) ==
    LET v == RDiv(Plain(x), Plain(y))
    IN  IF Plain(y) = Zero /\ IsNegative(y) THEN RNeg(v)
        ELSE IF v = Zero /\ IsNegative(x) # IsNegative(y) THEN NegZero
        ELSE v

\* the same infix notation with the sign of a zero kept; (-) binds tighter
\* than (+), (.) tighter than both
x (+) y == SAdd(x, y)
x (-) y == SSub(x, y)
x (.) y == SMul(x, y)

(***************************************************************************)
(* easy3d/core/constant.h: epsilon<float>() is 1.0e-6f.  x < epsilon is    *)
(* decided without forming p * EpsilonDen, which would leave TLC's         *)
(* integers.                                                               *)
(***************************************************************************)
EpsilonDen == 1000000
Epsilon == <<1, EpsilonDen>>

LtEpsilon(x) ==
    IF ~IsFinite(x) THEN (~IsNaN(x) /\ x[1] < 0)
    ELSE x[1] < (x[2] \div EpsilonDen) + (IF x[2] % EpsilonDen = 0 THEN 0 ELSE 1)

GtEpsilon(x) ==
    IF ~IsFinite(x) THEN (~IsNaN(x) /\ x[1] > 0)
    ELSE x[1] > x[2] \div EpsilonDen

\* min<float>() is FLT_MIN, about 1.2e-38: below every non-zero value <<p, q>>
\* of the model, whose magnitude is at least 1 / 2^31
LtMin(x) == x = Zero

RECURSIVE ISqrtFrom(_, _)
ISqrtFrom(k, r) == IF (r + 1) * (r + 1) > k THEN r ELSE ISqrtFrom(k, r + 1)

\* the integer part of the square root of k >= 0
ISqrt(k) == ISqrtFrom(k, 0)

IsSquare(k) == k >= 0 /\ ISqrt(k) * ISqrt(k) = k

\* std::sqrt of a value that is zero, a perfect square, or +Inf.  The square
\* root of any other value is not a rational: HasExactSqrt tells whether the
\* model represents it, and the inputs are chosen so that it does.
HasExactSqrt(x) == IF IsFinite(x) THEN IsSquare(x[1]) /\ IsSquare(x[2]) ELSE x = <<1, 0>>

RSqrt(x) == IF IsFinite(x) THEN <<ISqrt(x[1]), ISqrt(x[2])>> ELSE x

(***************************************************************************)
(* Mat<N, M, T>: a matrix is a function of the row index giving a function *)
(* of the column index; Vec<N, T> is a function of the index.              *)
(***************************************************************************)
Idx(k) == 0 .. (k - 1)

NumRows(m) == Cardinality(DOMAIN m)
NumCols(m) == Cardinality(DOMAIN m[0])

RECURSIVE DotFrom(_, _, _, _)
\* the sum of u[k] * v[k] for k = from .. to - 1, accumulated in index order
DotFrom(u, v, from, to) ==
    IF from >= to THEN Zero
    ELSE RAdd(DotFrom(u, v, from, to - 1), RMul(u[to - 1], v[to - 1]))

Row(m, r) == m[r]
Col(m, c) == [i \in DOMAIN m |-> m[i][c]]

SetRow(m, r, v) == [m EXCEPT ![r] = [i \in DOMAIN m[r] |-> v[i]]]

SwapRows(m, ra, rb) == [m EXCEPT ![ra] = m[rb], ![rb] = m[ra]]

SwapCols(m, ca, cb) ==
    [i \in DOMAIN m |-> [m[i] EXCEPT ![ca] = m[i][cb], ![cb] = m[i][ca]]]

Identity(rows, cols) ==
    [i \in Idx(rows) |-> [j \in Idx(cols) |-> IF i = j THEN One ELSE Zero]]

\* Mat * Mat
MatMul(x, y) ==
    [i \in DOMAIN x |->
        [j \in DOMAIN y[0] |-> DotFrom(x[i], Col(y, j), 0, NumCols(x))]]

\* Mat * Vec
MatVec(x, v) == [i \in DOMAIN x |-> DotFrom(x[i], v, 0, NumCols(x))]

\* Vec * scalar
VecScale(v, s) == [i \in DOMAIN v |-> RMul(v[i], s)]

\* Mat *= scalar
MatScale(m, s) == [i \in DOMAIN m |-> [j \in DOMAIN m[i] |-> RMul(m[i][j], s)]]

\* the dim x dim matrix whose elements, row by row, are those of seq
MatFromSeq(dim, seq) == [i \in Idx(dim) |-> [j \in Idx(dim) |-> seq[i * dim + j + 1]]]

\* a transposition that keeps the shape of m: right for square matrices only
TransposeKeepingShape(m) ==
    [i \in DOMAIN m |-> [j \in DOMAIN m[i] |->
        IF j \in DOMAIN m /\ i \in DOMAIN m[0] THEN m[j][i] ELSE m[i][j]]]

Transpose(m) == [j \in DOMAIN m[0] |-> [i \in DOMAIN m |-> m[i][j]]]

(***************************************************************************)
(* Inputs.  All 2 x 2 matrices with entries in -1 .. MaxEntry, a sample of *)
(* the 3 x 3 and 4 x 4 matrices with such entries, the matrices the        *)
(* documentation names, one whose pivot order depends on rounding, and     *)
(* non-singular matrices with elements of magnitude below epsilon.         *)
(***************************************************************************)
Entries == (-1) .. MaxEntry
Base == MaxEntry + 2

\* entry `pos` of sample `seed`: a fixed scrambling of the two numbers
SampleEntry(seed, pos) ==
    ((((seed * 7919 + pos * 10007 + seed * pos * 31 + 12345) \div 7)
       + (seed \div (pos + 1)) + pos * pos) % Base) - 1

SampleMat(dim, seed) ==
    [i \in Idx(dim) |-> [j \in Idx(dim) |-> FromInt(SampleEntry(seed, i * dim + j))]]

AllMat2 ==
    { [i \in Idx(2) |-> [j \in Idx(2) |-> FromInt(e[i * 2 + j + 1])]] :
        e \in [1 .. 4 -> Entries] }

\* A = [[1,2],[2,4]], rank 1
Singular2 ==
    [i \in Idx(2) |-> [j \in Idx(2) |-> FromInt((i + 1) * (j + 1))]]

\* A = diag(2, 4, 5)
Diag245 ==
    [i \in Idx(3) |-> [j \in Idx(3) |->
        IF i # j THEN Zero ELSE FromInt(IF i = 0 THEN 2 ELSE IF i = 1 THEN 4 ELSE 5)]]

\* A = [[3,1,1],[1,1,0],[-2,0,0]]: after the pivot 3 the elements 1 - 1/3 and
\* 2 * (1/3) are candidates, equal here; float and double order them differently
RoundedTie3 ==
    MatFromSeq(3, <<FromInt(3), FromInt(1), FromInt(1),
                    FromInt(1), FromInt(1), FromInt(0),
                    FromInt(-2), FromInt(0), FromInt(0)>>)

\* A = [[-1,2,-1],[1,2,2],[1,2,2]], rank 2: after the pivots 2 and 3 the one
\* candidate left is 1/2 - 3/2 * (1/3), zero here; a float build stores zero,
\* or with fused multiply-add a residual of magnitude 2^-24
Residual3 ==
    MatFromSeq(3, <<FromInt(-1), FromInt(2), FromInt(-1),
                    FromInt(1), FromInt(2), FromInt(2),
                    FromInt(1), FromInt(2), FromInt(2)>>)

\* diag(5e-7, 1, 2, ..): non-singular, with one element of magnitude below
\* epsilon
TinyPivot(dim) ==
    [i \in Idx(dim) |-> [j \in Idx(dim) |->
        IF i # j THEN Zero ELSE IF i = 0 THEN <<1, 2 * EpsilonDen>> ELSE FromInt(i)]]

\* A = [[t, 1], [2t, 1]] with t = 2^-22 and 2t = 2^-21 (4.8e-7): determinant
\* -t, every element of column 0 below epsilon
TinyColumn2 ==
    MatFromSeq(2, <<<<1, 4194304>>, FromInt(1), <<1, 2097152>>, FromInt(1)>>)

Inputs(dim) ==
    IF dim = 2 THEN AllMat2 \cup {Singular2, TinyPivot(2), TinyColumn2}
    ELSE IF dim = 3
    THEN {SampleMat(3, s) : s \in 1 .. Samples3} \cup {Diag245, RoundedTie3, Residual3, TinyPivot(3)}
    ELSE {SampleMat(4, s) : s \in 1 .. Samples4} \cup {TinyPivot(4)}

\* right-hand sides: N x M matrices, M = 1 or 2, with small integer entries
RhsMat(dim, cols, seed) ==
    [i \in Idx(dim) |-> [k \in Idx(cols) |-> FromInt(SampleEntry(seed + 7, i * cols + k + 3))]]

RhsInputs(dim) == { RhsMat(dim, 1 + (s % 2), s) : s \in 1 .. NumRhs }

(***************************************************************************)
(* State.  n is the template parameter N of the call, a and b the objects  *)
(* of the caller it is given as inputs; each function being executed has a *)
(* record of its locals and outputs, with pc its position.  A function     *)
(* that is not running is Idle.                                            *)
(***************************************************************************)
VARIABLES n, a, b, gj, inv, lu, ch, op

vars == <<n, a, b, gj, inv, lu, ch, op>>

Idle == [pc |-> "idle"]

(***************************************************************************)
(* The pivot search of gauss_jordan_elimination and of inverse: rows j in  *)
(* order, columns k in order, a strictly larger magnitude replaces the     *)
(* candidate.  maxr and maxc are declared without a value; assigned tells  *)
(* whether the search gave them one.                                       *)
(***************************************************************************)
RECURSIVE PivotScanNotSmaller(_, _, _, _, _)
\* a scan in which a magnitude that is not smaller replaces the candidate
PivotScanNotSmaller(mat, ipiv, dim, t, acc) ==
    IF t = dim * dim THEN acc
    ELSE LET j == t \div dim
             k == t % dim
             element == RAbs(mat[j][k])
         IN  IF ipiv[j] # 1 /\ ipiv[k] = 0 /\ RGe(element, acc.max)
             THEN PivotScanNotSmaller(mat, ipiv, dim, t + 1,
                            [max |-> element, maxr |-> j, maxc |-> k, assigned |-> TRUE])
             ELSE PivotScanNotSmaller(mat, ipiv, dim, t + 1, acc)

RECURSIVE PivotScanAnyRow(_, _, _, _, _)
\* a scan that does not skip the rows already pivoted
PivotScanAnyRow(mat, ipiv, dim, t, acc) ==
    IF t = dim * dim THEN acc
    ELSE LET j == t \div dim
             k == t % dim
             element == RAbs(mat[j][k])
         IN  IF ipiv[k] = 0 /\ RGt(element, acc.max)
             THEN PivotScanAnyRow(mat, ipiv, dim, t + 1,
                            [max |-> element, maxr |-> j, maxc |-> k, assigned |-> TRUE])
             ELSE PivotScanAnyRow(mat, ipiv, dim, t + 1, acc)

RECURSIVE PivotScan(_, _, _, _, _)
PivotScan(mat, ipiv, dim, t, acc) ==
    IF t = dim * dim THEN acc
    ELSE LET j == t \div dim
             k == t % dim
             element == RAbs(mat[j][k])
         IN  IF ipiv[j] # 1 /\ ipiv[k] = 0 /\ RGt(element, acc.max)
             THEN PivotScan(mat, ipiv, dim, t + 1,
                            [max |-> element, maxr |-> j, maxc |-> k, assigned |-> TRUE])
             ELSE PivotScan(mat, ipiv, dim, t + 1, acc)

PivotSearch(mat, ipiv, dim) ==
    PivotScan(mat, ipiv, dim, 0,
              [max |-> Zero, maxr |-> "unassigned", maxc |-> "unassigned", assigned |-> FALSE])

(***************************************************************************)
(* The scalars here are exact; the T of the code is float or double.  As   *)
(* long as every element is a dyadic rational (an integer over a power of  *)
(* two) the code computes the same values.  Once 1/pivot is no such number *)
(* it is rounded, and so is everything computed from it: elements that are *)
(* equal in magnitude here may differ in the last bit there, either way,   *)
(* depending on the type and the build.  Rounded tells that a matrix holds *)
(* an element that T cannot hold exactly (rpivot itself is stored at the   *)
(* pivot position after each step).  An element that cancels to zero here  *)
(* may then be stored as a residual of the rounding: not zero, and of a    *)
(* magnitude far below epsilon (2^-24 of the magnitudes involved in float, *)
(* which for the singular inputs, whose elements are small integers, is    *)
(* about 1e-7).                                                            *)
(***************************************************************************)
Rounded(mat) ==
    LET RECURSIVE IsPowerOfTwo(_)
        IsPowerOfTwo(k) == k = 1 \/ (k > 1 /\ k % 2 = 0 /\ IsPowerOfTwo(k \div 2))
    IN  \E i \in DOMAIN mat : \E j \in DOMAIN mat[i] : ~IsPowerOfTwo(mat[i][j][2])

\* the pairs <<maxr, maxc>> the search can end with when it assigns
\* (element > max compares the stored values): without rounding the one of
\* the exact scan, if it finds a non-zero candidate; after rounding every
\* candidate of the largest exact magnitude, which is the position of a
\* residual when that magnitude is zero
PivotCandidates(mat, ipiv, dim, rounded) ==
    LET p == PivotSearch(mat, ipiv, dim)
    IN  IF rounded
        THEN {c \in Idx(dim) \X Idx(dim) :
                 ipiv[c[1]] # 1 /\ ipiv[c[2]] = 0 /\ RAbs(mat[c[1]][c[2]]) = p.max}
        ELSE IF p.assigned THEN {<<p.maxr, p.maxc>>} ELSE {}

\* the pivot search on mat assigns nothing.  `read` is what the step finds in
\* maxr and maxc; when every candidate is zero in exact arithmetic,
\* read.residual tells that the search put them there from a residual
SearchFails(mat, ipiv, dim, rounded, read) ==
    /\ ~PivotSearch(mat, ipiv, dim).assigned
    /\ ~(read.residual
          /\ <<read.maxr, read.maxc>> \in PivotCandidates(mat, ipiv, dim, rounded))

\* the pair a search that assigns ends with: <<read.maxr, read.maxc>> when
\* the comparison of the stored values can end with it, else the pair of the
\* exact scan
PivotOf(mat, ipiv, dim, rounded, read) ==
    IF <<read.maxr, read.maxc>> \in PivotCandidates(mat, ipiv, dim, rounded)
    THEN <<read.maxr, read.maxc>>
    ELSE LET p == PivotSearch(mat, ipiv, dim) IN <<p.maxr, p.maxc>>

(***************************************************************************)
(* What a step finds when it reads maxr and maxc unassigned: whatever the  *)
(* build left in the two locals.  maxr, maxc in 0 .. dim - 1 are indices;  *)
(* the value dim stands for every value that is no index of the matrix.    *)
(* With such a value the accesses amat(maxc, maxc), swap_rows, ipiv[maxc]  *)
(* fall outside the objects: `noticed` tells whether the run ends there    *)
(* (a failed assertion of operator() in a debug build, a fault), and if    *)
(* not, the call goes on reading and writing memory that is not the        *)
(* matrix: its outputs are indeterminate, `ret` is what it returns, and    *)
(* the objects of the caller (a and b among them) are indeterminate after  *)
(* it; the record of the call has `outside` set.  Each read is             *)
(* indeterminate by itself: two calls, or two steps, need not find the     *)
(* same.  residual is false in these reads: nothing was assigned.          *)
(***************************************************************************)
UnassignedReads(dim) ==
    { [maxr |-> r, maxc |-> c, noticed |-> FALSE, ret |-> FALSE, residual |-> FALSE] :
          r \in Idx(dim), c \in Idx(dim) }
    \cup { [maxr |-> rc[1], maxc |-> rc[2], noticed |-> nr[1], ret |-> nr[2],
            residual |-> FALSE] :
              rc \in { q \in (0 .. dim) \X (0 .. dim) : q[1] = dim \/ q[2] = dim },
              nr \in { <<TRUE, FALSE>>, <<FALSE, FALSE>>, <<FALSE, TRUE>> } }

IsIndexRead(read, dim) == read.maxr \in Idx(dim) /\ read.maxc \in Idx(dim)

\* what a step finds in maxr and maxc after a search that assigned them where
\* the exact values leave the pair open: one of several candidates of equal
\* magnitude, or the position of a residual
RoundedReads(dim) ==
    { [maxr |-> r, maxc |-> c, noticed |-> FALSE, ret |-> FALSE, residual |-> TRUE] :
          r \in Idx(dim), c \in Idx(dim) }

\* a read outside the matrix that is noticed at once; it stands for the read
\* of the steps that make none, their search having assigned
NoticedRead(dim) ==
    [maxr |-> dim, maxc |-> dim, noticed |-> TRUE, ret |-> FALSE, residual |-> FALSE]

\* what the step of a call at pc can find in maxr and maxc after its search
\* on mat: a pair the search can assign, or, every candidate being zero in
\* exact arithmetic, what was left in them
SearchOutcomes(pc, mat, ipiv, dim, rounded) ==
    IF pc # "loop" THEN {NoticedRead(dim)}
    ELSE {read \in RoundedReads(dim) :
             <<read.maxr, read.maxc>> \in PivotCandidates(mat, ipiv, dim, rounded)}
         \cup IF PivotSearch(mat, ipiv, dim).assigned THEN {} ELSE UnassignedReads(dim)

\* a matrix of the shape of mat whose elements are indeterminate
Undetermined(mat) == [i \in DOMAIN mat |-> [j \in DOMAIN mat[i] |-> Indeterminate]]

\* multiply row by 1/pivot
ScalePivotRow(mat, maxc, rpivot) == SetRow(mat, maxc, VecScale(Row(mat, maxc), rpivot))

\* reduce rows (except pivot) of the left-hand matrix, whose row maxc is scaled
ReduceRows(mat, maxc) ==
    [j \in DOMAIN mat |->
        IF j = maxc THEN mat[j]
        ELSE LET dum == mat[j][maxc]
             IN  [k \in DOMAIN mat[j] |->
                    RSub(IF k = maxc THEN Zero ELSE mat[j][k], RMul(mat[maxc][k], dum))]]

\* ReduceRhs with the k loop of bmat running over the first column only
ReduceRhsFirstColumn(rhs, maxc, dums) ==
    [j \in DOMAIN rhs |->
        IF j = maxc THEN rhs[j]
        ELSE [k \in DOMAIN rhs[j] |->
                IF k = 0 THEN RSub(rhs[j][k], RMul(rhs[maxc][k], dums[j])) ELSE rhs[j][k]]]

\* the same reduction of the right-hand sides; dums[j] is amat(j, maxc)
ReduceRhs(rhs, maxc, dums) ==
    [j \in DOMAIN rhs |->
        IF j = maxc THEN rhs[j]
        ELSE [k \in DOMAIN rhs[j] |-> RSub(rhs[j][k], RMul(rhs[maxc][k], dums[j]))]]

RECURSIVE UndoColumnSwapsAscending(_, _, _, _)
\* UndoColumnSwaps with the loop running i = 0 up to count - 1
UndoColumnSwapsAscending(mat, indxr, indxc, count) ==
    IF count = 0 THEN mat
    ELSE LET m1 == UndoColumnSwapsAscending(mat, indxr, indxc, count - 1)
         IN  IF indxr[count - 1] # indxc[count - 1]
             THEN SwapCols(m1, indxr[count - 1], indxc[count - 1])
             ELSE m1

RECURSIVE UndoColumnSwaps(_, _, _, _)
\* columns indxr[i], indxc[i] are interchanged for i = count - 1 down to 0
UndoColumnSwaps(mat, indxr, indxc, count) ==
    IF count = 0 THEN mat
    ELSE UndoColumnSwaps(
            IF indxr[count - 1] # indxc[count - 1]
            THEN SwapCols(mat, indxr[count - 1], indxc[count - 1])
            ELSE mat,
            indxr, indxc, count - 1)

(***************************************************************************)
(* gauss_jordan_elimination(a, b, ainv, x).  amat is *ainv, bmat is *x.    *)
(***************************************************************************)
GJEntry(ma, mb, dim) ==
    [pc |-> "loop", i |-> 0, amat |-> ma, bmat |-> mb,
     ipiv |-> [k \in Idx(dim) |-> 0],
     indxr |-> [k \in Idx(dim) |-> "unassigned"],
     indxc |-> [k \in Idx(dim) |-> "unassigned"],
     ret |-> "none", rounded |-> Rounded(ma), outside |-> FALSE]

\* the body of iteration st.i of the outer loop after its pivot search
GJBody(st, maxr, maxc, dim) ==
    LET ipiv1 == [st.ipiv EXCEPT ![maxc] = @ + 1]
        amat1 == IF maxr # maxc THEN SwapRows(st.amat, maxr, maxc) ELSE st.amat
        bmat1 == IF maxr # maxc THEN SwapRows(st.bmat, maxr, maxc) ELSE st.bmat
        st1 == [st EXCEPT !.ipiv = ipiv1, !.amat = amat1, !.bmat = bmat1,
                          !.indxr[st.i] = maxr, !.indxc[st.i] = maxc]
    IN  IF LtEpsilon(RAbs(amat1[maxc][maxc]))
        THEN [st1 EXCEPT !.pc = "returned", !.ret = FALSE]
        ELSE LET rpivot == RDiv(One, amat1[maxc][maxc])
                 amat2 == ScalePivotRow([amat1 EXCEPT ![maxc][maxc] = One], maxc, rpivot)
                 bmat2 == ScalePivotRow(bmat1, maxc, rpivot)
             IN  [st1 EXCEPT !.amat = ReduceRows(amat2, maxc),
                             !.bmat = ReduceRhs(bmat2, maxc, Col(amat2, maxc)),
                             !.rounded = @ \/ Rounded(ReduceRows(amat2, maxc)),
                             !.i = st.i + 1,
                             !.pc = IF st.i + 1 = dim THEN "unscramble" ELSE "loop"]

\* a return that leaves the columns as the pivoting left them
GJFinishScrambled(st, dim) == [st EXCEPT !.pc = "returned", !.ret = TRUE]

\* unscramble a by interchanging columns, return true
GJFinish(st, dim) ==
    [st EXCEPT !.amat = UndoColumnSwaps(st.amat, st.indxr, st.indxc, dim),
               !.pc = "returned", !.ret = TRUE]

\* iteration st.i after a pivot search that assigned nothing: the body runs
\* with the values `read` found in maxr and maxc
GJUnassigned(st, read, dim) ==
    IF IsIndexRead(read, dim) THEN GJBody(st, read.maxr, read.maxc, dim)
    ELSE IF read.noticed THEN [st EXCEPT !.pc = "abort"]
    ELSE [st EXCEPT !.pc = "returned", !.ret = read.ret, !.outside = TRUE,
                    !.amat = Undetermined(st.amat), !.bmat = Undetermined(st.bmat),
                    !.ipiv = IF read.maxc \in Idx(dim)
                             THEN [st.ipiv EXCEPT ![read.maxc] = @ + 1] ELSE st.ipiv,
                    !.indxr[st.i] = read.maxr, !.indxc[st.i] = read.maxc]

\* the next step of a call: an iteration (read is what it finds in maxr and
\* maxc where the exact values do not determine them: unassigned, the
\* position of a residual, or one of several candidates of equal magnitude
\* after rounding), the unscrambling and return, or nothing once the call is
\* over
GJAdvance(st, read, dim) ==
    IF st.pc = "loop"
    THEN IF SearchFails(st.amat, st.ipiv, dim, st.rounded, read)
         THEN GJUnassigned(st, read, dim)
         ELSE LET c == PivotOf(st.amat, st.ipiv, dim, st.rounded, read)
              IN  GJBody(st, c[1], c[2], dim)
    ELSE IF st.pc = "unscramble" THEN GJFinish(st, dim)
    ELSE st

RECURSIVE GJRun(_, _, _)
\* the iterations that remain from st, and the return; reads[i] is what
\* iteration i finds in maxr and maxc where the exact values leave it open
GJRun(st, reads, dim) ==
    IF st.pc = "loop" THEN GJRun(GJAdvance(st, reads[st.i], dim), reads, dim)
    ELSE GJAdvance(st, reads[0], dim)

\* the outcome of gauss_jordan_elimination(ma, mb, ainv, x) with distinct outputs
GaussJordan(ma, mb, dim, reads) == GJRun(GJEntry(ma, mb, dim), reads, dim)

GJCall ==
    /\ gj.pc = "call"
    /\ gj' = GJEntry(a, b, n)
    /\ UNCHANGED <<n, a, b, inv, lu, ch, op>>

\* an iteration whose pivot search assigns maxr and maxc, from a non-zero
\* candidate or from a residual
GJIteration ==
    /\ gj.pc = "loop"
    /\ \E c \in PivotCandidates(gj.amat, gj.ipiv, n, gj.rounded) :
          gj' = GJBody(gj, c[1], c[2], n)
    /\ UNCHANGED <<n, a, b, inv, lu, ch, op>>

\* an iteration whose pivot search finds every candidate zero (stored as
\* zero): maxr and maxc are read without having been assigned; a call that
\* goes on outside the matrix leaves the caller's a and b indeterminate as
\* well
GJIterationNoPivot ==
    /\ gj.pc = "loop"
    /\ ~PivotSearch(gj.amat, gj.ipiv, n).assigned
    /\ \E read \in UnassignedReads(n) : gj' = GJUnassigned(gj, read, n)
    /\ a' = IF gj'.outside THEN Undetermined(a) ELSE a
    /\ b' = IF gj'.outside THEN Undetermined(b) ELSE b
    /\ UNCHANGED <<n, inv, lu, ch, op>>

GJUnscramble ==
    /\ gj.pc = "unscramble"
    /\ gj' = GJFinish(gj, n)
    /\ UNCHANGED <<n, a, b, inv, lu, ch, op>>

InitGJ ==
    /\ n \in {2, 3}
    /\ a \in Inputs(n)
    /\ b \in RhsInputs(n)
    /\ gj = [pc |-> "call"]
    /\ inv = Idle /\ lu = Idle /\ ch = Idle /\ op = Idle

NextGJ == GJCall \/ GJIteration \/ GJIterationNoPivot \/ GJUnscramble

SpecGJ == InitGJ /\ [][NextGJ]_vars

(***************************************************************************)
(* determinant and inverse of Mat2, Mat3, Mat4: the closed forms.          *)
(***************************************************************************)
\* the determinants keep the sign of a zero result: the inverses divide by it
Determinant2(m) ==
    m[0][0] (.) m[1][1] (-) m[0][1] (.) m[1][0]

Determinant3(m) ==
    m[0][0] (.) (m[1][1] (.) m[2][2] (-) m[2][1] (.) m[1][2]) (+)
    m[0][1] (.) (m[2][0] (.) m[1][2] (-) m[1][0] (.) m[2][2]) (+)
    m[0][2] (.) (m[1][0] (.) m[2][1] (-) m[2][0] (.) m[1][1])

Determinant4(m) ==
    m[0][3] (.) m[1][2] (.) m[2][1] (.) m[3][0] (-) m[0][2] (.) m[1][3] (.) m[2][1] (.) m[3][0] (-)
    m[0][3] (.) m[1][1] (.) m[2][2] (.) m[3][0] (+) m[0][1] (.) m[1][3] (.) m[2][2] (.) m[3][0] (+)
    m[0][2] (.) m[1][1] (.) m[2][3] (.) m[3][0] (-) m[0][1] (.) m[1][2] (.) m[2][3] (.) m[3][0] (-)
    m[0][3] (.) m[1][2] (.) m[2][0] (.) m[3][1] (+) m[0][2] (.) m[1][3] (.) m[2][0] (.) m[3][1] (+)
    m[0][3] (.) m[1][0] (.) m[2][2] (.) m[3][1] (-) m[0][0] (.) m[1][3] (.) m[2][2] (.) m[3][1] (-)
    m[0][2] (.) m[1][0] (.) m[2][3] (.) m[3][1] (+) m[0][0] (.) m[1][2] (.) m[2][3] (.) m[3][1] (+)
    m[0][3] (.) m[1][1] (.) m[2][0] (.) m[3][2] (-) m[0][1] (.) m[1][3] (.) m[2][0] (.) m[3][2] (-)
    m[0][3] (.) m[1][0] (.) m[2][1] (.) m[3][2] (+) m[0][0] (.) m[1][3] (.) m[2][1] (.) m[3][2] (+)
    m[0][1] (.) m[1][0] (.) m[2][3] (.) m[3][2] (-) m[0][0] (.) m[1][1] (.) m[2][3] (.) m[3][2] (-)
    m[0][2] (.) m[1][1] (.) m[2][0] (.) m[3][3] (+) m[0][1] (.) m[1][2] (.) m[2][0] (.) m[3][3] (+)
    m[0][2] (.) m[1][0] (.) m[2][1] (.) m[3][3] (-) m[0][0] (.) m[1][2] (.) m[2][1] (.) m[3][3] (-)
    m[0][1] (.) m[1][0] (.) m[2][2] (.) m[3][3] (+) m[0][0] (.) m[1][1] (.) m[2][2] (.) m[3][3]

\* Inverse2 with the off-diagonal elements not negated
Inverse2NoNegation(m) ==
    MatScale(MatFromSeq(2, <<m[1][1], m[0][1], m[1][0], m[0][0]>>),
             SDiv(One, Determinant2(m)))

Inverse2(m) ==
    LET
        r00 == m[1][1]
        r01 == RNeg(m[0][1])
        r10 == RNeg(m[1][0])
        r11 == m[0][0]
        result == MatFromSeq(2, <<r00, r01, r10, r11>>)
        det == SDiv(One, Determinant2(m))
    IN  MatScale(result, det)

Inverse3(m) ==
    LET
        r00 == (m[1][1] ** m[2][2] -- m[2][1] ** m[1][2])
        r01 == RNeg(m[0][1] ** m[2][2] -- m[0][2] ** m[2][1])
        r02 == (m[0][1] ** m[1][2] -- m[0][2] ** m[1][1])
        r10 == RNeg(m[1][0] ** m[2][2] -- m[1][2] ** m[2][0])
        r11 == (m[0][0] ** m[2][2] -- m[0][2] ** m[2][0])
        r12 == RNeg(m[0][0] ** m[1][2] -- m[1][0] ** m[0][2])
        r20 == (m[1][0] ** m[2][1] -- m[2][0] ** m[1][1])
        r21 == RNeg(m[0][0] ** m[2][1] -- m[2][0] ** m[0][1])
        r22 == (m[0][0] ** m[1][1] -- m[1][0] ** m[0][1])
        result == MatFromSeq(3, <<r00, r01, r02, r10, r11, r12, r20, r21, r22>>)
        det == SDiv(One, Determinant3(m))
    IN  MatScale(result, det)

Inverse4(m) ==
    LET
        r00 == m[1][2] ** m[2][3] ** m[3][1] -- m[1][3] ** m[2][2] ** m[3][1]
            ++ m[1][3] ** m[2][1] ** m[3][2] -- m[1][1] ** m[2][3] ** m[3][2]
            -- m[1][2] ** m[2][1] ** m[3][3] ++ m[1][1] ** m[2][2] ** m[3][3]
        r01 == m[0][3] ** m[2][2] ** m[3][1] -- m[0][2] ** m[2][3] ** m[3][1]
            -- m[0][3] ** m[2][1] ** m[3][2] ++ m[0][1] ** m[2][3] ** m[3][2]
            ++ m[0][2] ** m[2][1] ** m[3][3] -- m[0][1] ** m[2][2] ** m[3][3]
        r02 == m[0][2] ** m[1][3] ** m[3][1] -- m[0][3] ** m[1][2] ** m[3][1]
            ++ m[0][3] ** m[1][1] ** m[3][2] -- m[0][1] ** m[1][3] ** m[3][2]
            -- m[0][2] ** m[1][1] ** m[3][3] ++ m[0][1] ** m[1][2] ** m[3][3]
        r03 == m[0][3] ** m[1][2] ** m[2][1] -- m[0][2] ** m[1][3] ** m[2][1]
            -- m[0][3] ** m[1][1] ** m[2][2] ++ m[0][1] ** m[1][3] ** m[2][2]
            ++ m[0][2] ** m[1][1] ** m[2][3] -- m[0][1] ** m[1][2] ** m[2][3]
        r10 == m[1][3] ** m[2][2] ** m[3][0] -- m[1][2] ** m[2][3] ** m[3][0]
            -- m[1][3] ** m[2][0] ** m[3][2] ++ m[1][0] ** m[2][3] ** m[3][2]
            ++ m[1][2] ** m[2][0] ** m[3][3] -- m[1][0] ** m[2][2] ** m[3][3]
        r11 == m[0][2] ** m[2][3] ** m[3][0] -- m[0][3] ** m[2][2] ** m[3][0]
            ++ m[0][3] ** m[2][0] ** m[3][2] -- m[0][0] ** m[2][3] ** m[3][2]
            -- m[0][2] ** m[2][0] ** m[3][3] ++ m[0][0] ** m[2][2] ** m[3][3]
        r12 == m[0][3] ** m[1][2] ** m[3][0] -- m[0][2] ** m[1][3] ** m[3][0]
            -- m[0][3] ** m[1][0] ** m[3][2] ++ m[0][0] ** m[1][3] ** m[3][2]
            ++ m[0][2] ** m[1][0] ** m[3][3] -- m[0][0] ** m[1][2] ** m[3][3]
        r13 == m[0][2] ** m[1][3] ** m[2][0] -- m[0][3] ** m[1][2] ** m[2][0]
            ++ m[0][3] ** m[1][0] ** m[2][2] -- m[0][0] ** m[1][3] ** m[2][2]
            -- m[0][2] ** m[1][0] ** m[2][3] ++ m[0][0] ** m[1][2] ** m[2][3]
        r20 == m[1][1] ** m[2][3] ** m[3][0] -- m[1][3] ** m[2][1] ** m[3][0]
            ++ m[1][3] ** m[2][0] ** m[3][1] -- m[1][0] ** m[2][3] ** m[3][1]
            -- m[1][1] ** m[2][0] ** m[3][3] ++ m[1][0] ** m[2][1] ** m[3][3]
        r21 == m[0][3] ** m[2][1] ** m[3][0] -- m[0][1] ** m[2][3] ** m[3][0]
            -- m[0][3] ** m[2][0] ** m[3][1] ++ m[0][0] ** m[2][3] ** m[3][1]
            ++ m[0][1] ** m[2][0] ** m[3][3] -- m[0][0] ** m[2][1] ** m[3][3]
        r22 == m[0][1] ** m[1][3] ** m[3][0] -- m[0][3] ** m[1][1] ** m[3][0]
            ++ m[0][3] ** m[1][0] ** m[3][1] -- m[0][0] ** m[1][3] ** m[3][1]
            -- m[0][1] ** m[1][0] ** m[3][3] ++ m[0][0] ** m[1][1] ** m[3][3]
        r23 == m[0][3] ** m[1][1] ** m[2][0] -- m[0][1] ** m[1][3] ** m[2][0]
            -- m[0][3] ** m[1][0] ** m[2][1] ++ m[0][0] ** m[1][3] ** m[2][1]
            ++ m[0][1] ** m[1][0] ** m[2][3] -- m[0][0] ** m[1][1] ** m[2][3]
        r30 == m[1][2] ** m[2][1] ** m[3][0] -- m[1][1] ** m[2][2] ** m[3][0]
            -- m[1][2] ** m[2][0] ** m[3][1] ++ m[1][0] ** m[2][2] ** m[3][1]
            ++ m[1][1] ** m[2][0] ** m[3][2] -- m[1][0] ** m[2][1] ** m[3][2]
        r31 == m[0][1] ** m[2][2] ** m[3][0] -- m[0][2] ** m[2][1] ** m[3][0]
            ++ m[0][2] ** m[2][0] ** m[3][1] -- m[0][0] ** m[2][2] ** m[3][1]
            -- m[0][1] ** m[2][0] ** m[3][2] ++ m[0][0] ** m[2][1] ** m[3][2]
        r32 == m[0][2] ** m[1][1] ** m[3][0] -- m[0][1] ** m[1][2] ** m[3][0]
            -- m[0][2] ** m[1][0] ** m[3][1] ++ m[0][0] ** m[1][2] ** m[3][1]
            ++ m[0][1] ** m[1][0] ** m[3][2] -- m[0][0] ** m[1][1] ** m[3][2]
        r33 == m[0][1] ** m[1][2] ** m[2][0] -- m[0][2] ** m[1][1] ** m[2][0]
            ++ m[0][2] ** m[1][0] ** m[2][1] -- m[0][0] ** m[1][2] ** m[2][1]
            -- m[0][1] ** m[1][0] ** m[2][2] ++ m[0][0] ** m[1][1] ** m[2][2]
        result == MatFromSeq(4, <<r00, r01, r02, r03, r10, r11, r12, r13, r20, r21, r22, r23, r30, r31, r32, r33>>)
        det == SDiv(One, Determinant4(m))
    IN  MatScale(result, det)

\* the value of the determinant, as a comparison sees it
ClosedDeterminant(m) ==
    IF NumRows(m) = 2 THEN Plain(Determinant2(m))
    ELSE IF NumRows(m) = 3 THEN Plain(Determinant3(m))
    ELSE Plain(Determinant4(m))

ClosedInverse(m) ==
    IF NumRows(m) = 2 THEN Inverse2(m)
    ELSE IF NumRows(m) = 3 THEN Inverse3(m)
    ELSE Inverse4(m)

(***************************************************************************)
(* A call of the closed-form inverse.  The three functions have no branch: *)
(* the adjugate is filled, det = determinant(m) is computed, and            *)
(* det = T(1) / det is executed whatever det is.  op records the divisor of *)
(* that division and the matrix returned.                                   *)
(***************************************************************************)
ClosedInverseRun(fn, m, divisor, result) ==
    [pc |-> "returned", fn |-> fn, m |-> m, divisor |-> divisor, result |-> result]

Inverse2Call ==
    /\ op.pc = "call" /\ n = 2
    /\ op' = ClosedInverseRun("Mat2", a, Determinant2(a), Inverse2(a))
    /\ UNCHANGED <<n, a, b, gj, inv, lu, ch>>

Inverse3Call ==
    /\ op.pc = "call" /\ n = 3
    /\ op' = ClosedInverseRun("Mat3", a, Determinant3(a), Inverse3(a))
    /\ UNCHANGED <<n, a, b, gj, inv, lu, ch>>

Inverse4Call ==
    /\ op.pc = "call" /\ n = 4
    /\ op' = ClosedInverseRun("Mat4", a, Determinant4(a), Inverse4(a))
    /\ UNCHANGED <<n, a, b, gj, inv, lu, ch>>

InitClosedInverse ==
    /\ n \in {2, 3, 4}
    /\ a \in Inputs(n)
    /\ b = Identity(n, 1)
    /\ op = [pc |-> "call"]
    /\ gj = Idle /\ inv = Idle /\ lu = Idle /\ ch = Idle

NextClosedInverse ==
    Inverse2Call \/ Inverse3Call \/ Inverse4Call

SpecClosedInverse == InitClosedInverse /\ [][NextClosedInverse]_vars

(***************************************************************************)
(* inverse(m), the generic Gauss-Jordan inverse with full pivoting.        *)
(* logged is whether "input matrix is singular" was logged.                *)
(***************************************************************************)
InverseEntry(m, dim) ==
    [pc |-> "loop", i |-> 0, result |-> m,
     ipiv |-> [k \in Idx(dim) |-> 0],
     indxr |-> [k \in Idx(dim) |-> "unassigned"],
     indxc |-> [k \in Idx(dim) |-> "unassigned"],
     logged |-> FALSE, rounded |-> Rounded(m), outside |-> FALSE]

InverseBody(st, maxr, maxc, dim) ==
    LET ipiv1 == [st.ipiv EXCEPT ![maxc] = @ + 1]
        result1 == IF maxr # maxc THEN SwapRows(st.result, maxr, maxc) ELSE st.result
        st1 == [st EXCEPT !.ipiv = ipiv1, !.result = result1,
                          !.indxr[st.i] = maxr, !.indxc[st.i] = maxc]
    IN  IF LtEpsilon(RAbs(result1[maxc][maxc]))
        THEN [st1 EXCEPT !.pc = "returned", !.logged = TRUE]
        ELSE LET rpivot == RDiv(One, result1[maxc][maxc])
                 result2 == ScalePivotRow([result1 EXCEPT ![maxc][maxc] = One], maxc, rpivot)
             IN  [st1 EXCEPT !.result = ReduceRows(result2, maxc),
                             !.rounded = @ \/ Rounded(ReduceRows(result2, maxc)),
                             !.i = st.i + 1,
                             !.pc = IF st.i + 1 = dim THEN "unscramble" ELSE "loop"]

\* iteration st.i after a pivot search that assigned nothing; a call that
\* goes on outside the matrix returns an indeterminate matrix, through the
\* singular exit (read.ret false) or the last return
InverseUnassigned(st, read, dim) ==
    IF IsIndexRead(read, dim) THEN InverseBody(st, read.maxr, read.maxc, dim)
    ELSE IF read.noticed THEN [st EXCEPT !.pc = "abort"]
    ELSE [st EXCEPT !.pc = "returned", !.logged = ~read.ret, !.outside = TRUE,
                    !.result = Undetermined(st.result),
                    !.ipiv = IF read.maxc \in Idx(dim)
                             THEN [st.ipiv EXCEPT ![read.maxc] = @ + 1] ELSE st.ipiv,
                    !.indxr[st.i] = read.maxr, !.indxc[st.i] = read.maxc]

\* undo column swap, return result
InverseFinish(st, dim) ==
    [st EXCEPT !.result = UndoColumnSwaps(st.result, st.indxr, st.indxc, dim),
               !.pc = "returned"]

\* the next step of a call of inverse, as GJAdvance
InverseAdvance(st, read, dim) ==
    IF st.pc = "loop"
    THEN IF SearchFails(st.result, st.ipiv, dim, st.rounded, read)
         THEN InverseUnassigned(st, read, dim)
         ELSE LET c == PivotOf(st.result, st.ipiv, dim, st.rounded, read)
              IN  InverseBody(st, c[1], c[2], dim)
    ELSE IF st.pc = "unscramble" THEN InverseFinish(st, dim)
    ELSE st

InverseCall ==
    /\ inv.pc = "call"
    /\ inv' = InverseEntry(a, n)
    /\ UNCHANGED <<n, a, b, gj, lu, ch, op>>

InverseIteration ==
    /\ inv.pc = "loop"
    /\ \E c \in PivotCandidates(inv.result, inv.ipiv, n, inv.rounded) :
          inv' = InverseBody(inv, c[1], c[2], n)
    /\ UNCHANGED <<n, a, b, gj, lu, ch, op>>

\* every candidate is stored as zero: maxr and maxc are read unassigned, as
\* in GJIterationNoPivot
InverseIterationNoPivot ==
    /\ inv.pc = "loop"
    /\ ~PivotSearch(inv.result, inv.ipiv, n).assigned
    /\ \E read \in UnassignedReads(n) : inv' = InverseUnassigned(inv, read, n)
    /\ a' = IF inv'.outside THEN Undetermined(a) ELSE a
    /\ b' = IF inv'.outside THEN Undetermined(b) ELSE b
    /\ UNCHANGED <<n, gj, lu, ch, op>>

InverseUnscramble ==
    /\ inv.pc = "unscramble"
    /\ inv' = InverseFinish(inv, n)
    /\ UNCHANGED <<n, a, b, gj, lu, ch, op>>

InitInverse ==
    /\ n \in {2, 3, 4}
    /\ a \in Inputs(n)
    /\ b = Identity(n, 1)
    /\ inv = [pc |-> "call"]
    /\ gj = Idle /\ lu = Idle /\ ch = Idle /\ op = Idle

NextInverse ==
    InverseCall \/ InverseIteration \/ InverseIterationNoPivot \/ InverseUnscramble

SpecInverse == InitInverse /\ [][NextInverse]_vars

(***************************************************************************)
(* lu_decomposition(a, alu, rowp, d).  amat is *alu.                       *)
(***************************************************************************)
RECURSIVE MaxAbs(_, _)
\* the largest magnitude among the first count components of v
MaxAbs(v, count) ==
    IF count = 0 THEN Zero
    ELSE LET max == MaxAbs(v, count - 1)
             element == RAbs(v[count - 1])
         IN  IF RGt(element, max) THEN element ELSE max

RECURSIVE ImplicitScaling(_, _, _, _)
\* rows i .. dim - 1 of the scaling loop: the scale factors, and whether the
\* loop returned false at a row whose largest magnitude is below min<T>()
ImplicitScaling(mat, scalev, i, dim) ==
    IF i = dim THEN [singular |-> FALSE, scalev |-> scalev]
    ELSE LET max == MaxAbs(mat[i], dim)
         IN  IF LtMin(RAbs(max)) THEN [singular |-> TRUE, scalev |-> scalev]
             ELSE ImplicitScaling(mat, [scalev EXCEPT ![i] = RDiv(One, max)], i + 1, dim)

RECURSIVE SubtractProductsShort(_, _, _, _, _)
\* SubtractProducts with the k loop ending one term early
SubtractProductsShort(sum, mat, i, j, count) ==
    IF count <= 1 THEN sum
    ELSE RSub(SubtractProductsShort(sum, mat, i, j, count - 1),
              RMul(mat[i][count - 2], mat[count - 2][j]))

RECURSIVE SubtractProducts(_, _, _, _, _)
\* sum -= amat(i, k) * amat(k, j) for k = 0 .. count - 1
SubtractProducts(sum, mat, i, j, count) ==
    IF count = 0 THEN sum
    ELSE RSub(SubtractProducts(sum, mat, i, j, count - 1),
              RMul(mat[i][count - 1], mat[count - 1][j]))

RECURSIVE LUUpper(_, _, _)
\* the loop over i < j of column j, from row i on
LUUpper(mat, j, i) ==
    IF i >= j THEN mat
    ELSE LUUpper([mat EXCEPT ![i][j] = SubtractProducts(mat[i][j], mat, i, j, i)], j, i + 1)

RECURSIVE LULower(_, _, _, _, _)
\* the loop over i >= j of column j, from row i on, with the search for the
\* largest scaled pivot candidate; acc holds amat, max and imax
LULower(acc, scalev, j, i, dim) ==
    IF i = dim THEN acc
    ELSE LET sum == SubtractProducts(acc.amat[i][j], acc.amat, i, j, j)
             dum == RMul(scalev[i], RAbs(sum))
             amat1 == [acc.amat EXCEPT ![i][j] = sum]
         IN  LULower(IF RGe(dum, acc.max)
                     THEN [amat |-> amat1, max |-> dum, imax |-> i]
                     ELSE [acc EXCEPT !.amat = amat1],
                     scalev, j, i + 1, dim)

\* DivideByPivot with the loop starting at row j instead of row j + 1
DivideByPivotFromJ(mat, j) ==
    LET dum == RDiv(One, mat[j][j])
    IN  [i \in DOMAIN mat |->
            IF i >= j THEN [mat[i] EXCEPT ![j] = RMul(mat[i][j], dum)] ELSE mat[i]]

\* divide by the pivot element
DivideByPivot(mat, j) ==
    LET dum == RDiv(One, mat[j][j])
    IN  [i \in DOMAIN mat |->
            IF i > j THEN [mat[i] EXCEPT ![j] = RMul(mat[i][j], dum)] ELSE mat[i]]

\* a sign that no exchange changes
KeepParity(d, swap) == d

\* *d = -(*d) when rows were swapped
ChangeParity(d, swap) == IF swap THEN RNeg(d) ELSE d

\* a record that keeps j whatever row was exchanged with row j
RecordNoExchange(rowp, j, imax) == [rowp EXCEPT ![j] = j]

\* (*rowp)[j] = static_cast<T>(imax)
RecordExchange(rowp, j, imax) == [rowp EXCEPT ![j] = imax]

LUEntry(m, dim) ==
    LET scaling == ImplicitScaling(m, [k \in Idx(dim) |-> "unassigned"], 0, dim)
        st == [pc |-> "loop", j |-> 0, amat |-> m, d |-> One, scalev |-> scaling.scalev,
               rowp |-> [k \in Idx(dim) |-> "unassigned"], ret |-> "none",
               x |-> "unassigned"]
    IN  IF scaling.singular
        THEN [st EXCEPT !.pc = "returned", !.ret = FALSE]
        ELSE st

\* iteration st.j of the loop over the columns
LUColumn(st, dim) ==
    LET j == st.j
        low == LULower([amat |-> LUUpper(st.amat, j, 0), max |-> Zero, imax |-> "unassigned"],
                       st.scalev, j, j, dim)
        imax == low.imax
        swap == j # imax
        amat1 == IF swap THEN SwapRows(low.amat, imax, j) ELSE low.amat
        st1 == [st EXCEPT !.amat = amat1,
                          !.scalev = IF swap THEN [st.scalev EXCEPT ![imax] = st.scalev[j]]
                                             ELSE st.scalev,
                          !.d = ChangeParity(st.d, swap),
                          !.rowp = RecordExchange(st.rowp, j, imax)]
    IN  IF LtEpsilon(RAbs(amat1[j][j]))
        THEN [st1 EXCEPT !.pc = "returned", !.ret = FALSE]
        ELSE [st1 EXCEPT !.amat = DivideByPivot(amat1, j),
                         !.j = j + 1,
                         !.pc = IF j + 1 = dim THEN "returned" ELSE "loop",
                         !.ret = IF j + 1 = dim THEN TRUE ELSE "none"]

(***************************************************************************)
(* lu_back_substitution(alu, rowp, b, x).  result is *x.                   *)
(***************************************************************************)
RECURSIVE SubtractRow(_, _, _, _, _)
\* sum -= alu(i, j) * result[j] for j = from .. to - 1
SubtractRow(sum, alu, result, i, rng) ==
    IF rng[1] >= rng[2] THEN sum
    ELSE RSub(SubtractRow(sum, alu, result, i, <<rng[1], rng[2] - 1>>),
              RMul(alu[i][rng[2] - 1], result[rng[2] - 1]))

RECURSIVE ForwardSubstitution(_, _, _, _, _)
\* the first loop from row i on; acc holds result and ii
ForwardSubstitution(acc, alu, rowp, i, dim) ==
    IF i = dim THEN acc
    ELSE LET ip == rowp[i]
             sum0 == acc.result[ip]
             result1 == [acc.result EXCEPT ![ip] = acc.result[i]]
             sum == IF acc.ii # 0
                    THEN SubtractRow(sum0, alu, result1, i, <<acc.ii - 1, i>>)
                    ELSE sum0
             ii == IF acc.ii = 0 /\ GtEpsilon(RAbs(sum0)) THEN i + 1 ELSE acc.ii
         IN  ForwardSubstitution([result |-> [result1 EXCEPT ![i] = sum], ii |-> ii],
                                 alu, rowp, i + 1, dim)

RECURSIVE BackwardSubstitution(_, _, _, _)
\* the second loop: rows count - 1 down to 0
BackwardSubstitution(result, alu, count, dim) ==
    IF count = 0 THEN result
    ELSE LET i == count - 1
             sum == SubtractRow(result[i], alu, result, i, <<i + 1, dim>>)
         IN  BackwardSubstitution([result EXCEPT ![i] = RDiv(sum, alu[i][i])], alu, i, dim)

LUBackSubstitution(alu, rowp, bv, dim) ==
    BackwardSubstitution(
        ForwardSubstitution([result |-> bv, ii |-> 0], alu, rowp, 0, dim).result,
        alu, dim, dim)

RECURSIVE DiagonalProduct(_, _, _)
\* result *= tmp(i, i) for i = 0 .. count - 1
DiagonalProduct(result, tmp, count) ==
    IF count = 0 THEN result
    ELSE RMul(DiagonalProduct(result, tmp, count - 1), tmp[count - 1][count - 1])

\* the generic determinant(m), from the outputs of its lu_decomposition call
Determinant(st, dim) == DiagonalProduct(st.d, st.amat, dim)

LUCall ==
    /\ lu.pc = "call"
    /\ lu' = LUEntry(a, n)
    /\ UNCHANGED <<n, a, b, gj, inv, ch, op>>

LUIteration ==
    /\ lu.pc = "loop"
    /\ lu' = LUColumn(lu, n)
    /\ UNCHANGED <<n, a, b, gj, inv, ch, op>>

\* the caller solves a * x = b with the factors: b is column 0 of the variable b
LUSolve ==
    /\ lu.pc = "returned" /\ lu.ret = TRUE
    /\ lu' = [lu EXCEPT !.pc = "solved",
                         !.x = LUBackSubstitution(lu.amat, lu.rowp, Col(b, 0), n)]
    /\ UNCHANGED <<n, a, b, gj, inv, ch, op>>

\* right-hand sides with components of magnitude epsilon beside ordinary ones
SmallRhs(dim, seed) ==
    [i \in Idx(dim) |-> [k \in Idx(1) |->
        IF (i + seed) % 3 = 0 THEN Epsilon
        ELSE IF (i + seed) % 3 = 1 THEN FromInt(1) ELSE RNeg(Epsilon)]]

\* the tiny components go with the 2 x 2 and 3 x 3 matrices, whose solutions
\* keep numerators and denominators within the integers of the model
RhsInputsLU(dim) ==
    RhsInputs(dim) \cup (IF dim <= 3 THEN { SmallRhs(dim, s) : s \in 1 .. NumRhs } ELSE {})

InitLU ==
    /\ n \in {2, 3, 4}
    /\ a \in Inputs(n)
    /\ b \in RhsInputsLU(n)
    /\ lu = [pc |-> "call"]
    /\ gj = Idle /\ inv = Idle /\ ch = Idle /\ op = Idle

NextLU == LUCall \/ LUIteration \/ LUSolve

SpecLU == InitLU /\ [][NextLU]_vars

(***************************************************************************)
(* cholesky_decompose(A, L).  d, j, k and spd are its locals; L starts     *)
(* unassigned.                                                             *)
(***************************************************************************)
\* a row product that leaves out the term i = 0
RowProductFromOne(L, k, j, count) ==
    LET RECURSIVE Partial(_)
        Partial(c) == IF c <= 1 THEN Zero
                      ELSE RAdd(Partial(c - 1), RMul(L[k][c - 1], L[j][c - 1]))
    IN  Partial(count)

RECURSIVE RowProduct(_, _, _, _)
\* s += L(k, i) * L(j, i) for i = 0 .. count - 1
RowProduct(L, k, j, count) ==
    IF count = 0 THEN Zero
    ELSE RAdd(RowProduct(L, k, j, count - 1), RMul(L[k][count - 1], L[j][count - 1]))

CholeskyEntry(dim) ==
    [pc |-> "loop", j |-> 0, k |-> 0, d |-> Zero, spd |-> TRUE,
     L |-> [i \in Idx(dim) |-> [c \in Idx(dim) |-> "unassigned"]],
     ret |-> "none"]

\* a symmetry test that looks at column 0 only
SymmetricPairFirstColumn(A, k, j) == A[0][j] = A[j][0]

\* A(k, j) == A(j, k), an exact comparison
SymmetricPair(A, k, j) == A[k][j] = A[j][k]

\* one iteration of the loop over k < j
CholeskyOffDiagonal(st, A) ==
    LET j == st.j
        k == st.k
        s == RDiv(RSub(A[j][k], RowProduct(st.L, k, j, k)), st.L[k][k])
    IN  [st EXCEPT !.L[j][k] = s,
                   !.d = RAdd(st.d, RMul(s, s)),
                   !.spd = st.spd /\ SymmetricPair(A, k, j),
                   !.k = k + 1]

\* the magnitude in place of the clamped value
ClampedMagnitude(d) == RAbs(d)

\* the value whose square root becomes L(j, j)
ClampedDiagonal(d) == IF RGt(d, Zero) THEN d ELSE Zero

\* the end of iteration j: the diagonal element and the zeros right of it
CholeskyDiagonal(st, A, dim) ==
    LET j == st.j
        d == RSub(A[j][j], st.d)
        row == [c \in Idx(dim) |->
                  IF c = j THEN RSqrt(ClampedDiagonal(d))
                  ELSE IF c > j THEN Zero ELSE st.L[j][c]]
        spd == st.spd /\ RGt(d, Zero)
    IN  [st EXCEPT !.L[j] = row, !.spd = spd, !.d = Zero, !.k = 0, !.j = j + 1,
                   !.pc = IF j + 1 = dim THEN "returned" ELSE "loop",
                   !.ret = IF j + 1 = dim THEN spd ELSE "none"]

RECURSIVE CholeskyExact(_, _, _)
\* every square root taken from st on is one the model represents
CholeskyExact(st, A, dim) ==
    IF st.pc # "loop" THEN TRUE
    ELSE IF st.k < st.j THEN CholeskyExact(CholeskyOffDiagonal(st, A), A, dim)
    ELSE /\ HasExactSqrt(ClampedDiagonal(RSub(A[st.j][st.j], st.d)))
         /\ CholeskyExact(CholeskyDiagonal(st, A, dim), A, dim)

CholeskyCall ==
    /\ ch.pc = "call"
    /\ ch' = CholeskyEntry(n)
    /\ UNCHANGED <<n, a, b, gj, inv, lu, op>>

CholeskyInner ==
    /\ ch.pc = "loop" /\ ch.k < ch.j
    /\ ch' = CholeskyOffDiagonal(ch, a)
    /\ UNCHANGED <<n, a, b, gj, inv, lu, op>>

CholeskyOuter ==
    /\ ch.pc = "loop" /\ ch.k = ch.j
    /\ ch' = CholeskyDiagonal(ch, a, n)
    /\ UNCHANGED <<n, a, b, gj, inv, lu, op>>

\* lower-triangular factors with diagonal 1 or 2 and elements -1, 0, 1 below it
LowerFactor(dim, seed) ==
    [i \in Idx(dim) |-> [j \in Idx(dim) |->
        IF j > i THEN Zero
        ELSE IF j = i THEN FromInt(1 + ((seed \div (i + 1)) % 2))
        ELSE FromInt(((((seed + 1) * (i * dim + j + 2)) \div (j + 2)) % 3) - 1)]]

Shifted(m, i, j, delta) == [m EXCEPT ![i][j] = RAdd(m[i][j], FromInt(delta))]

CholeskyInputs(dim) ==
    LET products == { MatMul(LowerFactor(dim, s), Transpose(LowerFactor(dim, s))) :
                        s \in 1 .. SamplesChol }
        shifted == { Shifted(m, i, j, delta) :
                        m \in products, i \in Idx(dim), j \in Idx(dim),
                        delta \in (-MaxShift) .. MaxShift }
    IN  { m \in shifted : CholeskyExact(CholeskyEntry(dim), m, dim) }

InitCholesky ==
    /\ n \in {2, 3, 4}
    /\ a \in CholeskyInputs(n)
    /\ b = Identity(n, 1)
    /\ ch = [pc |-> "call"]
    /\ gj = Idle /\ inv = Idle /\ lu = Idle /\ op = Idle

NextCholesky == CholeskyCall \/ CholeskyInner \/ CholeskyOuter

SpecCholesky == InitCholesky /\ [][NextCholesky]_vars

(***************************************************************************)
(* cholesky_solve(L, b, x) and cholesky_solve(L, B, X).  The arguments are *)
(* references: objs is the store of the objects they refer to, and the     *)
(* output reference is either "x", a separate object, or "b", the          *)
(* right-hand side itself.                                                 *)
(***************************************************************************)
\* x[k] -= x[i] * L(k, i) for i = 0 .. count - 1, leaving out i = 0
ForwardTermsFromOne(x, L, k, count) ==
    LET RECURSIVE Partial(_)
        Partial(c) == IF c <= 1 THEN x[k]
                      ELSE RSub(Partial(c - 1), RMul(x[c - 1], L[k][c - 1]))
    IN  Partial(count)

RECURSIVE ForwardTerms(_, _, _, _)
\* x[k] -= x[i] * L(k, i) for i = 0 .. count - 1
ForwardTerms(x, L, k, count) ==
    IF count = 0 THEN x[k]
    ELSE RSub(ForwardTerms(x, L, k, count - 1), RMul(x[count - 1], L[k][count - 1]))

RECURSIVE ForwardSolve(_, _, _)
\* solve L * y = b: iterations k = 0 .. count - 1
ForwardSolve(x, L, count) ==
    IF count = 0 THEN x
    ELSE LET y == ForwardSolve(x, L, count - 1)
             k == count - 1
         IN  [y EXCEPT ![k] = RDiv(ForwardTerms(y, L, k, k), L[k][k])]

RECURSIVE BackwardTerms(_, _, _, _)
\* x[k] -= x[i] * L(i, k) for i = k + 1 .. hi - 1
BackwardTerms(x, L, k, hi) ==
    IF hi <= k + 1 THEN x[k]
    ELSE RSub(BackwardTerms(x, L, k, hi - 1), RMul(x[hi - 1], L[hi - 1][k]))

RECURSIVE BackwardSolve(_, _, _, _)
\* solve L' * x = y: iterations k = dim - 1 down to k
BackwardSolve(x, L, k, dim) ==
    IF k = dim THEN x
    ELSE LET y == BackwardSolve(x, L, k + 1, dim)
         IN  [y EXCEPT ![k] = RDiv(BackwardTerms(y, L, k, dim), L[k][k])]

\* the object store after cholesky_solve(L, b, x), out naming the object of x
CholeskySolveVector(objs, L, out, dim) ==
    LET copied == [objs EXCEPT ![out] = objs["b"]]
        forward == [copied EXCEPT ![out] = ForwardSolve(copied[out], L, dim)]
    IN  [forward EXCEPT ![out] = BackwardSolve(forward[out], L, 0, dim)]

SetCol(m, c, v) == [i \in DOMAIN m |-> [m[i] EXCEPT ![c] = v[i]]]

RECURSIVE ForwardColumns(_, _, _, _), BackwardColumns(_, _, _, _)
\* the first loop over j = 0 .. count - 1
ForwardColumns(X, L, count, dim) ==
    IF count = 0 THEN X
    ELSE LET Y == ForwardColumns(X, L, count - 1, dim)
         IN  SetCol(Y, count - 1, ForwardSolve(Col(Y, count - 1), L, dim))

\* the second loop over j = 0 .. count - 1
BackwardColumns(X, L, count, dim) ==
    IF count = 0 THEN X
    ELSE LET Y == BackwardColumns(X, L, count - 1, dim)
         IN  SetCol(Y, count - 1, BackwardSolve(Col(Y, count - 1), L, 0, dim))

\* the object store after cholesky_solve(L, B, X), out naming the object of X
CholeskySolveMatrix(objs, L, out, dim) ==
    LET copied == [objs EXCEPT ![out] = objs["b"]]
        cols == NumCols(copied[out])
        forward == [copied EXCEPT ![out] = ForwardColumns(copied[out], L, cols, dim)]
    IN  [forward EXCEPT ![out] = BackwardColumns(forward[out], L, cols, dim)]

\* the caller's objects: the right-hand side and a separate, unassigned output
SolveObjects(rhs) == [b |-> rhs, x |-> "unassigned"]

CholeskySolveCall ==
    /\ ch.pc = "returned" /\ ch.ret = TRUE
    /\ \E out \in {"x", "b"} :
          ch' = [pc |-> "solved", L |-> ch.L, ret |-> ch.ret, out |-> out,
                 vec |-> CholeskySolveVector(SolveObjects(Col(b, 0)), ch.L, out, n),
                 mat |-> CholeskySolveMatrix(SolveObjects(b), ch.L, out, n)]
    /\ UNCHANGED <<n, a, b, gj, inv, lu, op>>

InitCholeskySolve ==
    /\ n \in {2, 3, 4}
    /\ a \in CholeskyInputs(n)
    /\ b \in RhsInputs(n)
    /\ ch = [pc |-> "call"]
    /\ gj = Idle /\ inv = Idle /\ lu = Idle /\ op = Idle

NextCholeskySolve == CholeskyCall \/ CholeskyInner \/ CholeskyOuter \/ CholeskySolveCall

SpecCholeskySolve == InitCholeskySolve /\ [][NextCholeskySolve]_vars

(***************************************************************************)
(* The other functions of Mat<N, M, T>, called with a of N rows and M      *)
(* columns and b of the same shape; op is the call and its result.         *)
(***************************************************************************)
RectMat(rows, cols, seed) ==
    [i \in Idx(rows) |-> [j \in Idx(cols) |->
        FromInt(SampleEntry(seed + rows, i * cols + j + cols))]]

RectInputs(rows) ==
    { RectMat(rows, cols, s) : cols \in 1 .. MaxDim, s \in 1 .. SamplesRect }

\* m itself and the matrices that differ from it in one element, by 1 or by epsilon
Neighbours(m) ==
    {m} \cup { [m EXCEPT ![i][j] = RAdd(m[i][j], delta)] :
                  i \in DOMAIN m, j \in DOMAIN m[0], delta \in {One, Epsilon} }

TransposeCall ==
    /\ op.pc = "call"
    /\ op' = [pc |-> "returned", fn |-> "transpose", result |-> Transpose(a)]
    /\ UNCHANGED <<n, a, b, gj, inv, lu, ch>>

\* transpose applied to the result of transpose
TransposeAgain ==
    /\ op.pc = "returned" /\ op.fn = "transpose"
    /\ op' = [pc |-> "returned", fn |-> "transpose twice", first |-> op.result,
              result |-> Transpose(op.result)]
    /\ UNCHANGED <<n, a, b, gj, inv, lu, ch>>

\* epsilon_equal(x, y, eps): the absolute difference does not exceed eps
EpsilonEqual(x, y, eps) == RGe(eps, RAbs(RSub(x, y)))

\* element i of the storage m_ of a matrix with N rows (column-major)
Stored(m, i) == m[i % NumRows(m)][i \div NumRows(m)]

\* a comparison whose loop ends after N elements instead of N * M
MatEqualsFirstColumn(x, y) ==
    \A i \in Idx(NumRows(x)) : EpsilonEqual(Stored(x, i), Stored(y, i), Zero)

\* Mat::operator==
MatEquals(x, y) ==
    \A i \in Idx(NumRows(x) * NumCols(x)) : EpsilonEqual(Stored(x, i), Stored(y, i), Zero)

\* Mat::operator!=
MatNotEquals(x, y) == ~MatEquals(x, y)

EqualsCall ==
    /\ op.pc = "call"
    /\ op' = [pc |-> "returned", fn |-> "equals", result |-> MatEquals(a, b),
              self |-> MatEquals(a, a), differs |-> MatNotEquals(a, b)]
    /\ UNCHANGED <<n, a, b, gj, inv, lu, ch>>

\* Mat<rows, cols, T>(const T *m) with m pointing at the len components of a
\* vector: m_[i] = m[i] for i < rows * cols, and each m[i] with i >= len is a
\* read past the end of the vector
MatFromArray(arr, len, rows, cols) ==
    [r \in Idx(rows) |-> [c \in Idx(cols) |->
        IF c * rows + r < len THEN arr[c * rows + r] ELSE Indeterminate]]

\* tensor<M, N, T>(u, v) with u of dimension p = M and v of dimension q = N
Tensor(u, v, p, q) ==
    LET mu == MatFromArray(u, p, q, 1)
        mv == MatFromArray(v, q, 1, p)
    IN  MatMul(mu, mv)

\* u is column 0 of a, v is row 0 of a
TensorCall ==
    /\ op.pc = "call"
    /\ op' = [pc |-> "returned", fn |-> "tensor",
              u |-> Col(a, 0), v |-> Row(a, 0),
              result |-> Tensor(Col(a, 0), Row(a, 0), n, NumCols(a)),
              outside |-> (n < NumCols(a) \/ NumCols(a) < n)]
    /\ UNCHANGED <<n, a, b, gj, inv, lu, ch>>

InitMatOps ==
    /\ n \in 1 .. MaxDim
    /\ a \in RectInputs(n)
    /\ b \in Neighbours(a)
    /\ op = [pc |-> "call"]
    /\ gj = Idle /\ inv = Idle /\ lu = Idle /\ ch = Idle

NextMatOps == TransposeCall \/ TransposeAgain \/ EqualsCall \/ TensorCall

SpecMatOps == InitMatOps /\ [][NextMatOps]_vars

(***************************************************************************)
(* Mat3 and Mat4 rotations.  An angle is given by its cosine and sine,     *)
(* <<c, s>> with c * c + s * s = 1: the quarter turns and the angles of    *)
(* the 3-4-5 triangle, for which std::cos and std::sin are rational.       *)
(***************************************************************************)
Angles ==
    { <<One, Zero>>, <<Zero, One>>, <<RNeg(One), Zero>>, <<Zero, RNeg(One)>>,
      <<<<3, 5>>, <<4, 5>>>>, <<<<4, 5>>, <<-3, 5>>>> }

Cos(t) == t[1]
Sin(t) == t[2]

\* the angle -t
Opposite(t) == <<t[1], RNeg(t[2])>>

\* rx, ry, rz of rotation(x, y, z, order); dim is 3 for Mat3 and 4 for Mat4
RotationX(dim, x) ==
    [i \in Idx(dim) |-> [j \in Idx(dim) |->
        IF <<i, j>> = <<1, 1>> \/ <<i, j>> = <<2, 2>> THEN Cos(x)
        ELSE IF <<i, j>> = <<1, 2>> THEN RNeg(Sin(x))
        ELSE IF <<i, j>> = <<2, 1>> THEN Sin(x)
        ELSE IF i = j THEN One ELSE Zero]]

RotationY(dim, y) ==
    [i \in Idx(dim) |-> [j \in Idx(dim) |->
        IF <<i, j>> = <<0, 0>> \/ <<i, j>> = <<2, 2>> THEN Cos(y)
        ELSE IF <<i, j>> = <<0, 2>> THEN Sin(y)
        ELSE IF <<i, j>> = <<2, 0>> THEN RNeg(Sin(y))
        ELSE IF i = j THEN One ELSE Zero]]

RotationZ(dim, z) ==
    [i \in Idx(dim) |-> [j \in Idx(dim) |->
        IF <<i, j>> = <<0, 0>> \/ <<i, j>> = <<1, 1>> THEN Cos(z)
        ELSE IF <<i, j>> = <<0, 1>> THEN RNeg(Sin(z))
        ELSE IF <<i, j>> = <<1, 0>> THEN Sin(z)
        ELSE IF i = j THEN One ELSE Zero]]

\* the switch of rotation(x, y, z, order): the matrix returned and whether
\* "invalid rotation order" was logged
EulerRotation(dim, x, y, z, order) ==
    LET rx == RotationX(dim, x)
        ry == RotationY(dim, y)
        rz == RotationZ(dim, z)
    IN  CASE order = 123 -> [result |-> MatMul(MatMul(rz, ry), rx), logged |-> FALSE]
          [] order = 132 -> [result |-> MatMul(MatMul(ry, rz), rx), logged |-> FALSE]
          [] order = 213 -> [result |-> MatMul(MatMul(rz, rx), ry), logged |-> FALSE]
          [] order = 231 -> [result |-> MatMul(MatMul(rx, rz), ry), logged |-> FALSE]
          [] order = 312 -> [result |-> MatMul(MatMul(ry, rx), rz), logged |-> FALSE]
          [] order = 321 -> [result |-> MatMul(MatMul(rx, ry), rz), logged |-> FALSE]
          [] OTHER -> [result |-> MatMul(MatMul(rx, rz), ry), logged |-> TRUE]

\* the default argument of order
DefaultOrder == 312

ValidOrders == {123, 132, 213, 231, 312, 321}

\* the orders the calls are made with
Orders == ValidOrders \cup {0, 111, 313, 4}

EulerCall ==
    /\ op.pc = "call" /\ op.fn = "euler"
    /\ LET r == EulerRotation(n, op.x, op.y, op.z, op.order)
       IN  op' = [op EXCEPT !.pc = "returned", !.result = r.result, !.logged = r.logged]
    /\ UNCHANGED <<n, a, b, gj, inv, lu, ch>>

\* rotation(x, y, z) called without an order
EulerDefaultCall ==
    /\ op.pc = "call" /\ op.fn = "euler"
    /\ LET r == EulerRotation(n, op.x, op.y, op.z, DefaultOrder)
       IN  op' = [op EXCEPT !.pc = "returned", !.order = DefaultOrder, !.defaulted = TRUE,
                            !.result = r.result, !.logged = r.logged]
    /\ UNCHANGED <<n, a, b, gj, inv, lu, ch>>

InitEuler ==
    /\ n \in {3, 4}
    /\ a = Identity(n, n) /\ b = Identity(n, 1)
    /\ op \in { [pc |-> "call", fn |-> "euler", x |-> x, y |-> y, z |-> z,
                  order |-> o, defaulted |-> FALSE, result |-> "none", logged |-> FALSE] :
                    x \in Angles, y \in Angles, z \in Angles, o \in Orders }
    /\ gj = Idle /\ inv = Idle /\ lu = Idle /\ ch = Idle

NextEuler == EulerCall \/ EulerDefaultCall

SpecEuler == InitEuler /\ [][NextEuler]_vars

(***************************************************************************)
(* Constructors of Mat3 and Mat4.  A default-constructed matrix has        *)
(* uninitialized elements: obj.m holds what a read of each element finds   *)
(* (an indeterminate value until the element is assigned) and obj.assigned *)
(* the elements that have been assigned.                                   *)
(***************************************************************************)
DefaultConstructed(dim) ==
    [m |-> [i \in Idx(dim) |-> [j \in Idx(dim) |-> Indeterminate]], assigned |-> {}]

\* (*this)(i, j) = v
Assign(obj, i, j, v) ==
    [m |-> [obj.m EXCEPT ![i][j] = v], assigned |-> obj.assigned \cup {<<i, j>>}]

RECURSIVE AssignAll(_, _)
\* the assignments <<i, j, v>> of seq, in order
AssignAll(obj, seq) ==
    IF seq = <<>> THEN obj
    ELSE AssignAll(Assign(obj, Head(seq)[1], Head(seq)[2], Head(seq)[3]), Tail(seq))

\* Mat3<T>::Mat3(const Mat<2, 2, T> &rhs)
Mat3FromMat2(rhs) ==
    AssignAll(DefaultConstructed(3),
        << <<0, 0, rhs[0][1]>>, <<0, 0, rhs[0][1]>>, <<0, 2, Zero>>,
           <<1, 0, rhs[1][1]>>, <<1, 0, rhs[1][1]>>, <<1, 2, Zero>>,
           <<2, 0, Zero>>,      <<2, 0, Zero>>,      <<2, 2, One>> >>)

\* Mat3<T>::sub()
Sub(m) == [i \in Idx(2) |-> [j \in Idx(2) |-> m[i][j]]]

Mat3Call ==
    /\ op.pc = "call" /\ op.fn = "Mat3(Mat2)"
    /\ LET obj == Mat3FromMat2(op.rhs)
       IN  op' = [op EXCEPT !.pc = "returned", !.result = obj.m,
                            !.assigned = obj.assigned]
    /\ UNCHANGED <<n, a, b, gj, inv, lu, ch>>

\* sub() of the constructed Mat3
Mat3SubCall ==
    /\ op.pc = "returned" /\ op.fn = "Mat3(Mat2)"
    /\ op' = [op EXCEPT !.fn = "Mat3(Mat2).sub()", !.sub = Sub(op.result)]
    /\ UNCHANGED <<n, a, b, gj, inv, lu, ch>>

Mat3Calls ==
    { [pc |-> "call", fn |-> "Mat3(Mat2)", rhs |-> rhs, result |-> "none",
       assigned |-> {}, sub |-> "none"] : rhs \in AllMat2 }

InitConstructors ==
    /\ n = 3
    /\ a = Identity(n, n) /\ b = Identity(n, 1)
    /\ op \in Mat3Calls
    /\ gj = Idle /\ inv = Idle /\ lu = Idle /\ ch = Idle

NextConstructors == Mat3Call \/ Mat3SubCall

SpecConstructors == InitConstructors /\ [][NextConstructors]_vars

(***************************************************************************)
(* Mat4 transformations: scale, translation, Mat4(Mat3), Mat4(s, rot, t),  *)
(* and the axis-angle rotation of Mat3.  A quaternion is <<x, y, z, w>>.   *)
(***************************************************************************)
\* Mat3(s00, ..., s22) and Mat4(s00, ..., s33): the arguments row by row
Mat3Of(seq) == MatFromSeq(3, seq)
Mat4Of(seq) == MatFromSeq(4, seq)

\* Mat4<T>::scale(T s)
Scale1(s) ==
    Mat4Of(<< s, Zero, Zero, Zero,
              Zero, s, Zero, Zero,
              Zero, Zero, s, Zero,
              Zero, Zero, Zero, One >>)

\* Mat4<T>::scale(T x, T y, T z, T w)
Scale4(x, y, z, w) ==
    Mat4Of(<< x, Zero, Zero, Zero,
              Zero, y, Zero, Zero,
              Zero, Zero, z, Zero,
              Zero, Zero, Zero, w >>)

\* Mat4<T>::scale(const Vec<4, T> &s)
ScaleVec(s) ==
    Mat4Of(<< s[1], Zero, Zero, Zero,
              Zero, s[2], Zero, Zero,
              Zero, Zero, s[3], Zero,
              Zero, Zero, Zero, s[4] >>)

\* Mat4<T>::translation(const Vec<3, T> &t)
Translation(t) ==
    Mat4Of(<< One, Zero, Zero, t[1],
              Zero, One, Zero, t[2],
              Zero, Zero, One, t[3],
              Zero, Zero, Zero, One >>)

\* Mat4<T>::Mat4(const Mat<3, 3, T> &rhs)
Mat4FromMat3(rhs) ==
    [i \in Idx(4) |-> [j \in Idx(4) |->
        IF i < 3 /\ j < 3 THEN rhs[i][j]
        ELSE IF i = 3 /\ j = 3 THEN One ELSE Zero]]

Two == FromInt(2)

\* Mat3<T>::Mat3(const Quat<T> &q)
Mat3FromQuat(q) ==
    LET x == q[1]
        y == q[2]
        z == q[3]
        w == q[4]
    IN  Mat3Of(<< One -- (Two ** ((y ** y) ++ (z ** z))), Two ** ((x ** y) -- (w ** z)), Two ** ((x ** z) ++ (w ** y)),
                  Two ** ((x ** y) ++ (w ** z)), One -- (Two ** ((x ** x) ++ (z ** z))), Two ** ((y ** z) -- (w ** x)),
                  Two ** ((x ** z) -- (w ** y)), Two ** ((y ** z) ++ (w ** x)), One -- (Two ** ((x ** x) ++ (y ** y))) >>)

\* a variant of the scaling below that scales the rows
ScaleRows(r, s) == [i \in Idx(3) |-> [j \in Idx(3) |-> r[i][j] ** s[i + 1]]]

\* r(i, j) = r(i, j) * s[j] of Mat4(s, rot, t)
ScaleColumns(r, s) == [i \in Idx(3) |-> [j \in Idx(3) |-> r[i][j] ** s[j + 1]]]

\* Mat4<T>::Mat4(const Vec<3, T> &s, const Quat<T> &rot, const Vec<3, T> &t)
Mat4FromSRT(s, rot, t) ==
    LET r == ScaleColumns(Mat3FromQuat(rot), s)
    IN  [i \in Idx(4) |-> [j \in Idx(4) |->
            IF i < 3 /\ j < 3 THEN r[i][j]
            ELSE IF i < 3 THEN t[i + 1]
            ELSE IF j = 3 THEN One ELSE Zero]]

\* operator+(Mat, Mat)
MatAdd(x, y) == [i \in DOMAIN x |-> [j \in DOMAIN x[i] |-> x[i][j] ++ y[i][j]]]

\* operator*(Mat, T)
MatTimes(m, s) == [i \in DOMAIN m |-> [j \in DOMAIN m[i] |-> m[i][j] ** s]]

\* a variant of the cross-product matrix below without the negations
CrossProductMatrixUnsigned(axis) ==
    Mat3Of(<< Zero, axis[2], axis[1],
              axis[2], Zero, axis[0],
              axis[1], axis[0], Zero >>)

\* cpm of Mat3::rotation(axis, angle); axis is indexed from 0
CrossProductMatrix(axis) ==
    Mat3Of(<< Zero, RNeg(axis[2]), axis[1],
              axis[2], Zero, RNeg(axis[0]),
              RNeg(axis[1]), axis[0], Zero >>)

\* Mat3<T>::rotation(const Vec<3, T> &axis, T angle)
AxisRotation(axis, angle) ==
    LET cpm == CrossProductMatrix(axis)
        tpm == Tensor(axis, axis, 3, 3)
        c == Cos(angle)
        rc == One -- c
        s == Sin(angle)
    IN  MatAdd(MatAdd(MatTimes(Identity(3, 3), c), MatTimes(cpm, s)), MatTimes(tpm, rc))

\* the values the scale factors and translations are made of
Scalars == { FromInt(k) : k \in Entries } \cup { <<1, 2>> }

\* unit quaternions with rational components
UnitQuats ==
    { <<Zero, Zero, Zero, One>>, <<One, Zero, Zero, Zero>>,
      <<Zero, Zero, <<3, 5>>, <<4, 5>>>>, <<Zero, <<-3, 5>>, Zero, <<4, 5>>>>,
      <<<<1, 2>>, <<1, 2>>, <<1, 2>>, <<1, 2>>>>,
      <<<<1, 2>>, <<-1, 2>>, <<1, 2>>, <<-1, 2>>>> }

\* unit axes with rational components, indexed from 0
UnitAxes ==
    { [i \in Idx(3) |-> s[i + 1]] :
        s \in { <<One, Zero, Zero>>, <<Zero, One, Zero>>, <<Zero, Zero, One>>,
                <<Zero, RNeg(One), Zero>>,
                <<<<3, 5>>, <<4, 5>>, Zero>>, <<Zero, <<-4, 5>>, <<3, 5>>>>,
                <<<<1, 3>>, <<2, 3>>, <<2, 3>>>>, <<<<2, 3>>, <<-1, 3>>, <<2, 3>>>> } }

\* the vectors rotated, indexed from 0
TestVectors ==
    { [i \in Idx(3) |-> FromInt(s[i + 1])] :
        s \in { <<1, 0, 0>>, <<0, 1, 0>>, <<0, 0, 1>>, <<1, 2, -1>> } }

ScaleCall ==
    /\ op.pc = "call" /\ op.fn = "scale"
    /\ op' = [op EXCEPT !.pc = "returned", !.result = Scale1(op.s),
                        !.fourfold = Scale4(op.s, op.s, op.s, op.s),
                        !.vec = ScaleVec(<<op.s, op.s, op.s, op.s>>)]
    /\ UNCHANGED <<n, a, b, gj, inv, lu, ch>>

\* Mat4(s, rot, t), and the three factors it is documented to combine
ComposeCall ==
    /\ op.pc = "call" /\ op.fn = "Mat4(s,rot,t)"
    /\ op' = [op EXCEPT !.pc = "returned",
                        !.result = Mat4FromSRT(op.s, op.rot, op.t),
                        !.R = Mat3FromQuat(op.rot),
                        !.product = MatMul(MatMul(Translation(op.t),
                                                  Mat4FromMat3(Mat3FromQuat(op.rot))),
                                           Scale4(op.s[1], op.s[2], op.s[3], One))]
    /\ UNCHANGED <<n, a, b, gj, inv, lu, ch>>

\* Mat3::rotation(axis, angle)
AxisRotationCall ==
    /\ op.pc = "call" /\ op.fn = "rotation(axis,angle)"
    /\ op' = [op EXCEPT !.pc = "returned", !.result = AxisRotation(op.axis, op.angle)]
    /\ UNCHANGED <<n, a, b, gj, inv, lu, ch>>

\* Mat3::rotation(axis, -angle) * Mat3::rotation(axis, angle) * v
AxisRotationBack ==
    /\ op.pc = "returned" /\ op.fn = "rotation(axis,angle)"
    /\ LET back == AxisRotation(op.axis, Opposite(op.angle))
       IN  op' = [op EXCEPT !.pc = "undone", !.back = back,
                            !.round = MatVec(MatMul(back, op.result), op.v)]
    /\ UNCHANGED <<n, a, b, gj, inv, lu, ch>>

ScaleCalls ==
    { [pc |-> "call", fn |-> "scale", s |-> s, result |-> "none", fourfold |-> "none",
       vec |-> "none"] : s \in Scalars }

ComposeCalls ==
    { [pc |-> "call", fn |-> "Mat4(s,rot,t)", s |-> <<s0, s1, s2>>, rot |-> q,
       t |-> <<t0, t1, t2>>, result |-> "none", R |-> "none", product |-> "none"] :
          s0 \in Scalars, s1 \in Scalars, s2 \in {One, Two}, q \in UnitQuats,
          t0 \in Scalars, t1 \in {Zero, One}, t2 \in {Zero, RNeg(One)} }

AxisRotationCalls ==
    { [pc |-> "call", fn |-> "rotation(axis,angle)", axis |-> ax, angle |-> t, v |-> v,
       result |-> "none", back |-> "none", round |-> "none"] :
          ax \in UnitAxes, t \in Angles, v \in TestVectors }

InitTransform ==
    /\ n \in {3, 4}
    /\ a = Identity(n, n) /\ b = Identity(n, 1)
    /\ op \in IF n = 3 THEN AxisRotationCalls ELSE ScaleCalls \cup ComposeCalls
    /\ gj = Idle /\ inv = Idle /\ lu = Idle /\ ch = Idle

NextTransform == ScaleCall \/ ComposeCall \/ AxisRotationCall \/ AxisRotationBack

SpecTransform == InitTransform /\ [][NextTransform]_vars

(***************************************************************************)
(* In-place calls.  The output arguments are pointers: objs is the store   *)
(* of the caller's objects "a", "b", "out" (a separate output matrix) and  *)
(* "x" (a separate output for the solution); a call names the objects its  *)
(* output pointers refer to.  Two calls on the same inputs run side by     *)
(* side, `sep` with separate outputs and `inp` with ainv = &a, x = &b      *)
(* (alu = &a); each call has its own locals, and what one reads in an      *)
(* unassigned maxr, maxc says nothing about what the other reads.          *)
(***************************************************************************)
CallerObjects(ma, mb) == [a |-> ma, b |-> mb, out |-> "unassigned", x |-> "unassigned"]

\* a copy that clears the destination before it reads the source
CopyClearing(objs, dst, src) ==
    LET cleared == [objs EXCEPT ![dst] = [i \in DOMAIN objs[src] |-> Zero]]
    IN  [cleared EXCEPT ![dst] = cleared[src]]

\* amat = a, bmat = b, result = b: the assignment *dst = src
CopyInto(objs, dst, src) == [objs EXCEPT ![dst] = objs[src]]

\* gauss_jordan_elimination(a, b, &outA, &outX) up to its loop
GJEntryAt(objs, outA, outX, dim) ==
    LET copied == CopyInto(CopyInto(objs, outA, "a"), outX, "b")
    IN  [objs |-> copied, st |-> GJEntry(copied[outA], copied[outX], dim)]

\* the writes of a step through the references amat and bmat; a step that
\* went on outside the matrix leaves the caller's a and b indeterminate too
GJStore(run, st, outA, outX) ==
    LET written == [run.objs EXCEPT ![outA] = st.amat, ![outX] = st.bmat]
    IN  [objs |-> IF st.outside
                  THEN [written EXCEPT !.a = Undetermined(@), !.b = Undetermined(@)]
                  ELSE written,
         st |-> st]

RECURSIVE LURun(_, _)
\* the columns that remain from st
LURun(st, dim) == IF st.pc = "loop" THEN LURun(LUColumn(st, dim), dim) ELSE st

\* lu_decomposition(a, &out, &rowp, &d)
LUDecompositionAt(objs, out, dim) ==
    LET copied == CopyInto(objs, out, "a")
        st == LURun(LUEntry(copied[out], dim), dim)
    IN  [objs |-> [copied EXCEPT ![out] = st.amat], st |-> st]

\* lu_back_substitution(alu, rowp, b, &out)
LUBackSubstitutionAt(run, alu, out, dim) ==
    LET copied == CopyInto(run.objs, out, "b")
    IN  [run EXCEPT !.objs = [copied EXCEPT ![out] =
                        LUBackSubstitution(copied[alu], run.st.rowp, copied[out], dim)]]

GJPairCall ==
    /\ op.pc = "call"
    /\ op' = [pc |-> "run", fn |-> "gj",
              sep |-> GJEntryAt(CallerObjects(a, b), "out", "x", n),
              inp |-> GJEntryAt(CallerObjects(a, b), "a", "b", n)]
    /\ UNCHANGED <<n, a, b, gj, inv, lu, ch>>

\* the search of the call st is made and assigns nothing
GJSearchFails(st, read) ==
    st.pc = "loop" /\ SearchFails(st.amat, st.ipiv, n, st.rounded, read)

GJSearchOutcomes(st) == SearchOutcomes(st.pc, st.amat, st.ipiv, n, st.rounded)

\* an iteration of the calls that are still in the loop, each search
\* assigning; the two calls are one function in one build, so from the same
\* values they compute the same stored values and end with the same pair
GJPairIteration ==
    /\ op.pc = "run" /\ op.fn = "gj"
    /\ op.sep.st.pc = "loop" \/ op.inp.st.pc = "loop"
    /\ \E rs \in GJSearchOutcomes(op.sep.st), ri \in GJSearchOutcomes(op.inp.st) :
          /\ ~GJSearchFails(op.sep.st, rs) /\ ~GJSearchFails(op.inp.st, ri)
          /\ op.sep.st = op.inp.st => rs = ri
          /\ op' = [op EXCEPT
                    !.sep = GJStore(op.sep, GJAdvance(op.sep.st, rs, n), "out", "x"),
                    !.inp = GJStore(op.inp, GJAdvance(op.inp.st, ri, n), "a", "b")]
    /\ UNCHANGED <<n, a, b, gj, inv, lu, ch>>

\* an iteration in which a search leaves maxr and maxc unassigned: each call
\* reads its own locals.  From the same values the two searches end alike
\* (both assign nothing, or both assign the same pair); what is read
\* unassigned is not tied
GJPairIterationNoPivot ==
    /\ op.pc = "run" /\ op.fn = "gj"
    /\ \E rs \in GJSearchOutcomes(op.sep.st), ri \in GJSearchOutcomes(op.inp.st) :
          /\ GJSearchFails(op.sep.st, rs) \/ GJSearchFails(op.inp.st, ri)
          /\ op.sep.st = op.inp.st => rs.residual = ri.residual
          /\ op' = [op EXCEPT
                    !.sep = GJStore(op.sep, GJAdvance(op.sep.st, rs, n), "out", "x"),
                    !.inp = GJStore(op.inp, GJAdvance(op.inp.st, ri, n), "a", "b")]
    /\ UNCHANGED <<n, a, b, gj, inv, lu, ch>>

GJPairUnscramble ==
    /\ op.pc = "run" /\ op.fn = "gj"
    /\ op.sep.st.pc # "loop" /\ op.inp.st.pc # "loop"
    /\ op.sep.st.pc = "unscramble" \/ op.inp.st.pc = "unscramble"
    /\ op' = [op EXCEPT !.sep = GJStore(op.sep, GJAdvance(op.sep.st, NoticedRead(n), n), "out", "x"),
                        !.inp = GJStore(op.inp, GJAdvance(op.inp.st, NoticedRead(n), n), "a", "b")]
    /\ UNCHANGED <<n, a, b, gj, inv, lu, ch>>

\* lu_decomposition(a, &alu, &rowp, &d) beside lu_decomposition(a, &a, &rowp, &d)
LUPairCall ==
    /\ op.pc = "call"
    /\ op' = [pc |-> "run", fn |-> "lu",
              sep |-> LUDecompositionAt(CallerObjects(a, Col(b, 0)), "out", n),
              inp |-> LUDecompositionAt(CallerObjects(a, Col(b, 0)), "a", n)]
    /\ UNCHANGED <<n, a, b, gj, inv, lu, ch>>

\* lu_back_substitution(alu, rowp, b, &x) beside lu_back_substitution(a, rowp, b, &b)
LUPairSolve ==
    /\ op.pc = "run" /\ op.fn = "lu"
    /\ op.sep.st.pc = "returned" /\ op.sep.st.ret = TRUE
    /\ op.inp.st.pc = "returned" /\ op.inp.st.ret = TRUE
    /\ op' = [op EXCEPT !.pc = "solved",
                        !.sep = LUBackSubstitutionAt(op.sep, "out", "x", n),
                        !.inp = LUBackSubstitutionAt(op.inp, "a", "b", n)]
    /\ UNCHANGED <<n, a, b, gj, inv, lu, ch>>

InitInPlace ==
    /\ n \in {2, 3}
    /\ a \in Inputs(n)
    /\ b \in RhsInputs(n)
    /\ op = [pc |-> "call"]
    /\ gj = Idle /\ inv = Idle /\ lu = Idle /\ ch = Idle

NextInPlace ==
    \/ GJPairCall \/ GJPairIteration \/ GJPairIterationNoPivot \/ GJPairUnscramble
    \/ LUPairCall \/ LUPairSolve

SpecInPlace == InitInPlace /\ [][NextInPlace]_vars

(***************************************************************************)
(* gauss_jordan_elimination(a, b, ainv, x) and inverse(a) on the same a,   *)
(* iteration by iteration.  op keeps what the last iteration started from: *)
(* the matrices and ipiv before it, the number of iterations executed,     *)
(* which of the two read maxr and maxc unassigned in it (read), which      *)
(* assigned them from a residual (residual), and whether some iteration    *)
(* read them unassigned.  Each function has its own maxr and maxc.         *)
(***************************************************************************)
ZeroMat(dim) == [i \in Idx(dim) |-> [j \in Idx(dim) |-> Zero]]

PivotInputs(dim) == Inputs(dim) \cup {ZeroMat(dim)}

PivotCall ==
    /\ gj.pc = "call" /\ inv.pc = "call"
    /\ gj' = GJEntry(a, b, n)
    /\ inv' = InverseEntry(a, n)
    /\ op' = [pc |-> "run", steps |-> 0, unassigned |-> FALSE, last |-> "none",
              read |-> [gj |-> FALSE, inv |-> FALSE],
              residual |-> [gj |-> FALSE, inv |-> FALSE],
              before |-> [gj |-> a, inv |-> a],
              ipiv |-> [gj |-> [k \in Idx(n) |-> 0], inv |-> [k \in Idx(n) |-> 0]]]
    /\ UNCHANGED <<n, a, b, lu, ch>>

\* the search of inverse is made and assigns nothing
InverseSearchFails(st, read) ==
    st.pc = "loop" /\ SearchFails(st.result, st.ipiv, n, st.rounded, read)

InverseSearchOutcomes(st) == SearchOutcomes(st.pc, st.result, st.ipiv, n, st.rounded)

\* the search of the function is made and assigns from a residual
FromResidual(pc, mat, ipiv, read) ==
    pc = "loop" /\ ~PivotSearch(mat, ipiv, n).assigned /\ read.residual

\* the two functions are at the same point with the same stored values
SameValues ==
    /\ gj.pc = "loop" /\ inv.pc = "loop" /\ gj.amat = inv.result
    /\ gj.ipiv = inv.ipiv /\ gj.indxr = inv.indxr /\ gj.indxc = inv.indxc

\* an iteration of both, each search assigning; the two functions do the
\* same operations in the same order, so from the same values they compute
\* the same stored values and end with the same pair
PivotIteration ==
    /\ gj.pc = "loop" \/ inv.pc = "loop"
    /\ \E rg \in GJSearchOutcomes(gj), ri \in InverseSearchOutcomes(inv) :
          /\ ~GJSearchFails(gj, rg) /\ ~InverseSearchFails(inv, ri)
          /\ SameValues => rg = ri
          /\ gj' = GJAdvance(gj, rg, n)
          /\ inv' = InverseAdvance(inv, ri, n)
          /\ op' = [op EXCEPT
                    !.steps = @ + 1, !.last = "assigned",
                    !.read = [gj |-> FALSE, inv |-> FALSE],
                    !.residual = [gj |-> FromResidual(gj.pc, gj.amat, gj.ipiv, rg),
                                  inv |-> FromResidual(inv.pc, inv.result, inv.ipiv, ri)],
                    !.before = [gj |-> gj.amat, inv |-> inv.result],
                    !.ipiv = [gj |-> gj.ipiv, inv |-> inv.ipiv]]
    /\ UNCHANGED <<n, a, b, lu, ch>>

\* every candidate is stored as zero in one of them: it reads maxr and maxc
\* unassigned.  From the same values the two searches end alike; what is
\* read unassigned is not tied
PivotIterationNoPivot ==
    /\ \E rg \in GJSearchOutcomes(gj), ri \in InverseSearchOutcomes(inv) :
          /\ GJSearchFails(gj, rg) \/ InverseSearchFails(inv, ri)
          /\ SameValues => rg.residual = ri.residual
          /\ gj' = GJAdvance(gj, rg, n)
          /\ inv' = InverseAdvance(inv, ri, n)
          /\ op' = [op EXCEPT
                    !.steps = @ + 1, !.last = "unassigned", !.unassigned = TRUE,
                    !.read = [gj |-> GJSearchFails(gj, rg),
                              inv |-> InverseSearchFails(inv, ri)],
                    !.residual = [gj |-> FromResidual(gj.pc, gj.amat, gj.ipiv, rg),
                                  inv |-> FromResidual(inv.pc, inv.result, inv.ipiv, ri)],
                    !.before = [gj |-> gj.amat, inv |-> inv.result],
                    !.ipiv = [gj |-> gj.ipiv, inv |-> inv.ipiv]]
    /\ a' = IF gj'.outside \/ inv'.outside THEN Undetermined(a) ELSE a
    /\ b' = IF gj'.outside \/ inv'.outside THEN Undetermined(b) ELSE b
    /\ UNCHANGED <<n, lu, ch>>

PivotUnscramble ==
    /\ gj.pc # "loop" /\ inv.pc # "loop"
    /\ gj.pc = "unscramble" \/ inv.pc = "unscramble"
    /\ gj' = GJAdvance(gj, NoticedRead(n), n)
    /\ inv' = InverseAdvance(inv, NoticedRead(n), n)
    /\ op' = [op EXCEPT !.last = "unscramble", !.read = [gj |-> FALSE, inv |-> FALSE],
                        !.residual = [gj |-> FALSE, inv |-> FALSE]]
    /\ UNCHANGED <<n, a, b, lu, ch>>

InitPivot ==
    /\ n \in {2, 3}
    /\ a \in PivotInputs(n)
    /\ b \in RhsInputs(n)
    /\ gj = [pc |-> "call"] /\ inv = [pc |-> "call"]
    /\ op = [pc |-> "call"]
    /\ lu = Idle /\ ch = Idle

NextPivot == PivotCall \/ PivotIteration \/ PivotIterationNoPivot \/ PivotUnscramble

SpecPivot == InitPivot /\ [][NextPivot]_vars

(***************************************************************************)
(* SplineCurveInterpolation<Point, N, T>.  n is the template parameter N,  *)
(* a point is the tuple of its N coordinates, parameters and coordinates   *)
(* are integers.  op holds the object (obj), the last call made on it      *)
(* (last: of a call that returned early only whether its input was empty   *)
(* or of mismatched sizes is kept; of an accepted one its arguments) and   *)
(* what the calls so far asked for:                                        *)
(*   ndebug : the build has shown to be one with NDEBUG (assert compiled   *)
(*               out): a set_boundary whose assertion would fail returned; *)
(*               until a call shows it the build is either,                *)
(*   requested : the arguments of the last set_boundary that returned      *)
(*               (the constructor's defaults before any),                  *)
(*   handed : requested as it was at the last set_points that accepted,    *)
(*   had_points : some set_points has accepted its data,                   *)
(*   boundary_after_early : a set_boundary met its assertion right after a *)
(*               set_points that returned early;                           *)
(* of a set_boundary call, last.violated tells that the condition of its   *)
(* assertion was false and last.accepted that it returned.                 *)
(* SplineInterpolation, the per-coordinate interpolator, is used through   *)
(* set_boundary and set_data only: an interpolator is the record of the    *)
(* arguments these two calls gave it.                                      *)
(***************************************************************************)
MaxSamples == 3

first_deriv == 1

second_deriv == 2

\* the set_boundary calls tried: <<left, left_value, right, right_value>>
BoundarySettings ==
    {<<first_deriv, 1, second_deriv, 0>>,
     <<second_deriv, 0, first_deriv, 1>>}

ParameterValues == {0, 1, 2}

RECURSIVE SeqsOfLength(_, _)
SeqsOfLength(values, len) ==
    IF len = 0 THEN {<<>>}
    ELSE {Append(q, v) : q \in SeqsOfLength(values, len - 1), v \in values}

SeqsUpTo(values, len) == UNION {SeqsOfLength(values, k) : k \in 0 .. len}

\* the values of N tried: curves in the plane
CurveDimensions == {2}

\* the parameter sequences tried
ParameterSeqs == SeqsUpTo(ParameterValues, MaxSamples)

\* count distinct points of dimension dim: point i has coordinates 10 i + j
SamplePoints(dim, count) ==
    [i \in 1 .. count |-> [j \in 1 .. dim |-> 10 * i + j]]

\* the number of points tried with len parameters: as many, or one more
\* (none with MaxSamples parameters)
PointCount(len, mismatch) ==
    IF mismatch THEN (len + 1) % (MaxSamples + 1) ELSE len

\* points whose distances are integers, for the accumulated curve length
CurvePoints(dim) ==
    IF dim = 1 THEN {<<0>>, <<3>>} ELSE {<<0, 0>>, <<3, 4>>}

\* the point sequences tried with the accumulated curve length
CurveSeqs1 == SeqsUpTo(CurvePoints(1), MaxSamples)

CurveSeqs2 == SeqsUpTo(CurvePoints(2), MaxSamples)

CurveSeqs(dim) == IF dim = 1 THEN CurveSeqs1 ELSE CurveSeqs2

SplineCurveInterpolation ==
    [left_ |-> second_deriv, right_ |-> second_deriv,
     left_value_ |-> 0, right_value_ |-> 0,
     dim_ |-> 0, interpolators_ |-> <<>>, largest_t_ |-> 0]

\* the comparison of the filter with >= : equal parameters are kept
IsNotBefore(para, back) == para >= back

IsAfter(para, back) == para > back

\* filter out non-monotone data: the loop over the input samples from i on
RECURSIVE FilterMonotone(_, _, _, _, _)
FilterMonotone(i, parameters, points, input_parameters, input_points) ==
    IF i > Len(input_parameters)
    THEN [parameters |-> parameters, points |-> points]
    ELSE LET para == input_parameters[i]
         IN  IF i = 1 \/ IsAfter(para, parameters[Len(parameters)])
             THEN FilterMonotone(i + 1, Append(parameters, para),
                                 Append(points, input_points[i]),
                                 input_parameters, input_points)
             ELSE FilterMonotone(i + 1, parameters, points,
                                 input_parameters, input_points)

\* the boundary type handed over with first and second derivative exchanged
ToInterpolatorTypeExchanged(type) ==
    IF type = first_deriv THEN "second_deriv" ELSE "first_deriv"

\* left_ == first_deriv ? SplineInterpolation<T>::first_deriv
\*                      : SplineInterpolation<T>::second_deriv
ToInterpolatorType(type) ==
    IF type = first_deriv THEN "first_deriv" ELSE "second_deriv"

NewInterpolator == [x |-> <<>>, y |-> <<>>]

\* interpolators_.resize(dim)
ResizeInterpolators(interpolators, dim) ==
    [i \in 1 .. dim |->
        IF i <= Len(interpolators) THEN interpolators[i] ELSE NewInterpolator]

\* interpolators_[i].set_boundary(...)
InterpolatorSetBoundary(it, left, left_value, right, right_value, cubic_spline) ==
    [left |-> left, left_value |-> left_value,
     right |-> right, right_value |-> right_value,
     cubic_spline |-> cubic_spline, x |-> it.x, y |-> it.y]

\* interpolators_[i].set_data(parameters, coords[i])
InterpolatorSetData(it, x, y) == [it EXCEPT !.x = x, !.y = y]

\* set_boundary: the object after the call.  violated is whether the
\* condition of the assertion is false; where assert is compiled in (ndebug
\* false) the call then ends in "abort", with NDEBUG it assigns as ever
SetBoundary(obj, left, left_value, right, right_value, ndebug) ==
    LET violated == Len(obj.interpolators_) # 0
    IN  IF violated /\ ~ndebug
        THEN [pc |-> "abort", violated |-> violated, obj |-> obj]
        ELSE [pc |-> "ready", violated |-> violated,
              obj |-> [obj EXCEPT !.left_ = left, !.right_ = right,
                                  !.left_value_ = left_value,
                                  !.right_value_ = right_value]]

\* set_points(parameters, points, cubic_spline)
SetPoints(obj, input_parameters, input_points, cubic_spline) ==
    IF input_parameters = <<>> \/ Len(input_parameters) # Len(input_points)
    THEN [obj |-> obj, accepted |-> FALSE, diff |-> 0,
          parameters |-> <<>>, points |-> <<>>]
    ELSE LET kept == FilterMonotone(1, <<>>, <<>>, input_parameters, input_points)
             parameters == kept.parameters
             points == kept.points
             diff == Len(input_points) - Len(points)
             dim == Len(points[1])
             coords == [j \in 1 .. dim |-> [i \in 1 .. Len(points) |-> points[i][j]]]
             resized == ResizeInterpolators(obj.interpolators_, dim)
             interpolators ==
                 [i \in 1 .. dim |->
                     InterpolatorSetData(
                         InterpolatorSetBoundary(resized[i],
                             ToInterpolatorType(obj.left_), obj.left_value_,
                             ToInterpolatorType(obj.right_), obj.right_value_,
                             cubic_spline),
                         parameters, coords[i])]
         IN  [obj |-> [obj EXCEPT !.dim_ = dim,
                                  !.largest_t_ = parameters[Len(parameters)],
                                  !.interpolators_ = interpolators],
              accepted |-> TRUE, diff |-> diff,
              parameters |-> input_parameters, points |-> input_points]

\* distance(p, q) of two points
Distance(p, q) ==
    LET RECURSIVE SquaresFrom(_)
        SquaresFrom(j) ==
            IF j > Len(p) THEN 0
            ELSE (p[j] - q[j]) * (p[j] - q[j]) + SquaresFrom(j + 1)
    IN  ISqrt(SquaresFrom(1))

\* the accumulated curve distance of the points, 0 for the first
RECURSIVE AccumulatedLength(_, _)
AccumulatedLength(points, count) ==
    IF count = 1 THEN <<0>>
    ELSE LET before == AccumulatedLength(points, count - 1)
         IN  Append(before, before[count - 1] + Distance(points[count - 1], points[count]))

\* set_points(points, cubic_spline)
SetPointsByLength(obj, points, cubic_spline) ==
    IF Len(points) < 2
    THEN [obj |-> obj, accepted |-> FALSE, diff |-> 0,
          parameters |-> <<>>, points |-> <<>>]
    ELSE SetPoints(obj, AccumulatedLength(points, Len(points)), points, cubic_spline)

CurveData(obj) == <<obj.dim_, obj.largest_t_, obj.interpolators_>>

SetBoundaryCall ==
    /\ op.pc = "ready"
    /\ \E setting \in BoundarySettings, ndebug \in BOOLEAN :
           LET left == setting[1]
               left_value == setting[2]
               right == setting[3]
               right_value == setting[4]
               r == SetBoundary(op.obj, left, left_value, right, right_value, ndebug)
           IN  /\ op.ndebug => ndebug
               /\ op' = [op EXCEPT
                   !.pc = r.pc,
                   !.ndebug = @ \/ (r.violated /\ ndebug),
                   !.obj = r.obj,
                   !.last = [fn |-> "set_boundary", accepted |-> r.pc = "ready",
                             violated |-> r.violated, empty |-> FALSE, mismatched |-> FALSE,
                             parameters |-> <<>>, points |-> <<>>,
                             cubic_spline |-> FALSE, diff |-> 0, changed |-> FALSE],
                   !.requested = IF r.pc = "ready"
                                 THEN <<left, left_value, right, right_value>>
                                 ELSE @,
                   !.boundary_after_early =
                       IF ~r.violated
                       THEN @ \/ (op.last.fn # "set_boundary" /\ op.last.fn # "none"
                                  /\ ~op.last.accepted)
                       ELSE @]
    /\ UNCHANGED <<n, a, b, gj, inv, lu, ch>>

SetPointsCall ==
    /\ op.pc = "ready"
    /\ \E input_parameters \in ParameterSeqs,
          call \in {<<FALSE, TRUE>>, <<FALSE, FALSE>>, <<TRUE, TRUE>>} :
           LET mismatch == call[1]
               cubic_spline == call[2]
               count == PointCount(Len(input_parameters), mismatch)
               input_points == SamplePoints(n, count)
               r == SetPoints(op.obj, input_parameters, input_points, cubic_spline)
           IN  op' = [op EXCEPT
                   !.obj = r.obj,
                   !.last = [fn |-> "set_points", accepted |-> r.accepted,
                             violated |-> FALSE, empty |-> input_parameters = <<>>,
                             mismatched |-> Len(input_parameters) # Len(input_points),
                             parameters |-> r.parameters, points |-> r.points,
                             cubic_spline |-> r.accepted /\ cubic_spline, diff |-> r.diff,
                             changed |-> CurveData(r.obj) # CurveData(op.obj)],
                   !.handed = IF r.accepted THEN op.requested ELSE @,
                   !.had_points = @ \/ r.accepted]
    /\ UNCHANGED <<n, a, b, gj, inv, lu, ch>>

SetPointsByLengthCall ==
    /\ op.pc = "ready"
    /\ \E points \in CurveSeqs(n), cubic_spline \in BOOLEAN :
           LET r == SetPointsByLength(op.obj, points, cubic_spline)
           IN  op' = [op EXCEPT
                   !.obj = r.obj,
                   !.last = [fn |-> "set_points_by_length", accepted |-> r.accepted,
                             violated |-> FALSE, empty |-> points = <<>>, mismatched |-> FALSE,
                             parameters |-> r.parameters, points |-> r.points,
                             cubic_spline |-> r.accepted /\ cubic_spline, diff |-> r.diff,
                             changed |-> CurveData(r.obj) # CurveData(op.obj)],
                   !.handed = IF r.accepted THEN op.requested ELSE @,
                   !.had_points = @ \/ r.accepted]
    /\ UNCHANGED <<n, a, b, gj, inv, lu, ch>>

InitSpline ==
    /\ n \in CurveDimensions
    /\ a = Identity(n, n) /\ b = Identity(n, 1)
    /\ op = [pc |-> "ready", ndebug |-> FALSE, obj |-> SplineCurveInterpolation,
             last |-> [fn |-> "none", accepted |-> FALSE, violated |-> FALSE,
                       empty |-> FALSE, mismatched |-> FALSE,
                       parameters |-> <<>>, points |-> <<>>,
                       cubic_spline |-> FALSE, diff |-> 0, changed |-> FALSE],
             requested |-> <<second_deriv, 0, second_deriv, 0>>,
             handed |-> <<second_deriv, 0, second_deriv, 0>>,
             had_points |-> FALSE, boundary_after_early |-> FALSE]
    /\ gj = Idle /\ inv = Idle /\ lu = Idle /\ ch = Idle

NextSpline == SetBoundaryCall \/ SetPointsCall \/ SetPointsByLengthCall

SpecSpline == InitSpline /\ [][NextSpline]_vars

(***************************************************************************)
(* Reference notions the properties are stated with.                       *)
(***************************************************************************)
Minor(m, r, c) ==
    [i \in Idx(NumRows(m) - 1) |-> [j \in Idx(NumRows(m) - 1) |->
        m[IF i < r THEN i ELSE i + 1][IF j < c THEN j ELSE j + 1]]]

RECURSIVE Det(_), DetExpand(_, _)
\* the determinant by cofactor expansion along row 0
Det(m) == IF NumRows(m) = 1 THEN m[0][0] ELSE DetExpand(m, NumRows(m))
DetExpand(m, count) ==
    IF count = 0 THEN Zero
    ELSE LET j == count - 1
             term == RMul(m[0][j], Det(Minor(m, 0, j)))
         IN  RAdd(DetExpand(m, j), IF j % 2 = 0 THEN term ELSE RNeg(term))

\* a matrix with indeterminate elements is neither
IsSingular(m) == Det(m) = Zero
NonSingular(m) == Det(m) \notin {Zero, Indeterminate}

\* some iteration of a pivoting pass exchanged rows (and so has a column swap to undo)
SwapOccurred(st) == \E i \in Idx(st.i) : st.indxr[i] # st.indxc[i]

\* every element is an integer
IntegerEntries(m) == \A i \in DOMAIN m : \A j \in DOMAIN m[i] : m[i][j][2] = 1

\* the element the singularity test of the last step of a call looked at,
\* given the matrix and the pivot columns recorded
TestedPivot(mat, indxc, i) == mat[indxc[i]][indxc[i]]

GJRejectsSingular ==
    (gj.pc = "returned" /\ IsSingular(a)) => gj.ret = FALSE

LowerOf(alu) ==
    [i \in DOMAIN alu |-> [j \in DOMAIN alu |->
        IF i = j THEN One ELSE IF j < i THEN alu[i][j] ELSE Zero]]

UpperOf(alu) ==
    [i \in DOMAIN alu |-> [j \in DOMAIN alu |-> IF j >= i THEN alu[i][j] ELSE Zero]]

RECURSIVE ExchangeRows(_, _, _)
\* rows j and rowp[j] of m exchanged for j = 0 .. count - 1, in this order
ExchangeRows(m, rowp, count) ==
    IF count = 0 THEN m
    ELSE SwapRows(ExchangeRows(m, rowp, count - 1), count - 1, rowp[count - 1])

LURoundTrip ==
    (lu.pc \in {"returned", "solved"} /\ lu.ret = TRUE) =>
        MatMul(LowerOf(lu.amat), UpperOf(lu.amat)) = ExchangeRows(a, lu.rowp, n)

\* a successful 3 x 3 or 4 x 4 decomposition with two row exchanges and a
\* lower factor that is not the identity
LURoundTripWitness ==
    /\ lu.pc = "returned" /\ lu.ret = TRUE /\ n >= 3
    /\ Cardinality({j \in Idx(n) : lu.rowp[j] # j}) >= 2
    /\ \E i, j \in Idx(n) : j < i /\ lu.amat[i][j] # Zero

(***************************************************************************)
(* C5.  For a non-singular a, lu_decomposition and lu_back_substitution    *)
(* give x with a * x = b, the x of gauss_jordan_elimination, for every b,  *)
(* also one with non-zero components of magnitude at most epsilon.         *)
(***************************************************************************)
LUSolvesLikeGaussJordan ==
    (lu.pc = "solved" /\ NonSingular(a)) =>
        /\ MatVec(a, lu.x) = Col(b, 0)
        /\ lu.x = Col(GaussJordan(a, b, n, [i \in Idx(n) |-> NoticedRead(n)]).bmat, 0)

(***************************************************************************)
(* C6.  lu_decomposition returns false for every singular a: at the        *)
(* scaling stage with an all-zero row, or at the column whose pivot is     *)
(* below epsilon; so for a = [[1,2],[2,4]].                                *)
(***************************************************************************)
HasZeroRow(m) == \E i \in DOMAIN m : \A j \in DOMAIN m[i] : m[i][j] = Zero

LURejectsSingular ==
    /\ IsSingular(a) => lu.pc # "solved"
    /\ (lu.pc = "returned" /\ IsSingular(a)) =>
          /\ lu.ret = FALSE
          /\ \/ (HasZeroRow(a) /\ lu.j = 0 /\ lu.amat = a)
             \/ (~HasZeroRow(a) /\ LtEpsilon(RAbs(lu.amat[lu.j][lu.j])))

\* [[1,2],[2,4]] rejected at column 1, after the exchange of rows 0 and 1
LURejectsWitness ==
    /\ a = Singular2 /\ lu.pc = "returned" /\ lu.ret = FALSE
    /\ lu.j = 1 /\ lu.rowp[0] = 1

(***************************************************************************)
(* C7.  Determinant consistency: for a non-singular 2x2, 3x3, 4x4 matrix   *)
(* the closed-form determinant equals the generic one, d times the         *)
(* product of the diagonal of the U factor.                                *)
(***************************************************************************)
DeterminantConsistency ==
    (lu.pc = "returned" /\ NonSingular(a)) =>
        /\ lu.ret = TRUE
        /\ ClosedDeterminant(a) = Determinant(lu, n)

(***************************************************************************)
(* C9.  Cholesky correctness: for a symmetric positive-definite A,         *)
(* cholesky_decompose returns true and L is lower triangular with a        *)
(* positive diagonal and L * transpose(L) = A.                             *)
(***************************************************************************)
IsSymmetric(m) == \A i, j \in DOMAIN m : m[i][j] = m[j][i]

LeadingBlock(m, size) == [i \in Idx(size) |-> [j \in Idx(size) |-> m[i][j]]]

\* Sylvester's criterion
PositiveDefinite(m) ==
    \A size \in 1 .. NumRows(m) : RGt(Det(LeadingBlock(m, size)), Zero)

CholeskyCorrect ==
    (ch.pc = "returned" /\ IsSymmetric(a) /\ PositiveDefinite(a)) =>
        /\ ch.ret = TRUE
        /\ \A i, j \in Idx(n) : j > i => ch.L[i][j] = Zero
        /\ \A i \in Idx(n) : RGt(ch.L[i][i], Zero)
        /\ MatMul(ch.L, Transpose(ch.L)) = a

\* a positive-definite 4 x 4 matrix whose factor has no zero below or on the diagonal
CholeskyCorrectWitness ==
    /\ ch.pc = "returned" /\ ch.ret = TRUE /\ n = 4
    /\ IsSymmetric(a) /\ PositiveDefinite(a)
    /\ \A i, j \in Idx(n) : j <= i => ch.L[i][j] # Zero

(***************************************************************************)
(* C10.  cholesky_decompose returns false whenever A is not symmetric or   *)
(* not positive-definite, so a true result implies L * transpose(L) = A;   *)
(* and spd, once false during the pass, stays false.                       *)
(***************************************************************************)
CholeskyFlagSound ==
    ch.pc = "returned" =>
        /\ (~IsSymmetric(a) \/ ~PositiveDefinite(a)) => ch.ret = FALSE
        /\ ch.ret = TRUE => MatMul(ch.L, Transpose(ch.L)) = a
        /\ ch.ret = ch.spd

CholeskyFlagStays ==
    [][(ch.pc = "loop" /\ ch.spd = FALSE) => ch'.spd = FALSE]_vars

CholeskyNeverSilentlySucceeds == []CholeskyFlagSound /\ CholeskyFlagStays

\* rejected although the lower triangle alone would pass: only the last
\* symmetry comparison, of A(N-2, N-1) with A(N-1, N-2), fails
CholeskyRejectsWitness ==
    /\ ch.pc = "returned" /\ ch.ret = FALSE /\ n >= 3
    /\ a[n - 2][n - 1] # a[n - 1][n - 2]
    /\ \A i, j \in Idx(n) : (i < j /\ <<i, j>> # <<n - 2, n - 1>>) => a[i][j] = a[j][i]
    /\ \A i \in Idx(n) : RGt(ch.L[i][i], Zero)

(***************************************************************************)
(* C11.  For L of a successful cholesky_decompose(A, L), cholesky_solve    *)
(* gives x with A * x = b; the matrix overload gives X whose column j is   *)
(* the vector overload applied to column j of B, so A * X = B; also when   *)
(* the output is the right-hand side object itself.                        *)
(***************************************************************************)
CholeskySolveCorrect ==
    ch.pc = "solved" =>
        /\ MatVec(a, ch.vec[ch.out]) = Col(b, 0)
        /\ \A j \in Idx(NumCols(b)) :
              Col(ch.mat[ch.out], j) =
                  CholeskySolveVector(SolveObjects(Col(b, j)), ch.L, "x", n)["x"]
        /\ MatMul(a, ch.mat[ch.out]) = b

\* a 3 x 3 or 4 x 4 solve in place, two right-hand sides, L with an element
\* below the diagonal, a solution that is not the right-hand side
CholeskySolveWitness ==
    /\ ch.pc = "solved" /\ ch.out = "b" /\ n >= 3 /\ NumCols(b) = 2
    /\ \E i, j \in Idx(n) : j < i /\ ch.L[i][j] # Zero
    /\ ch.mat["b"] # b
    /\ \A i \in Idx(n) : ch.vec["b"][i] # Zero

(***************************************************************************)
(* C12.  Transpose involution: transpose(a) of an N x M matrix a, also a   *)
(* non-square one, is the M x N matrix with element (j, i) = a(i, j), and  *)
(* transpose(transpose(a)) = a element for element.                        *)
(***************************************************************************)
TransposeInvolution ==
    /\ (op.pc = "returned" /\ op.fn = "transpose") =>
          /\ DOMAIN op.result = Idx(NumCols(a))
          /\ \A j \in Idx(NumCols(a)) :
                /\ DOMAIN op.result[j] = Idx(n)
                /\ \A i \in Idx(n) : op.result[j][i] = a[i][j]
    /\ (op.pc = "returned" /\ op.fn = "transpose twice") => op.result = a

\* a 2 x 3 matrix, not symmetric in its square part, transposed twice
TransposeWitness ==
    /\ op.pc = "returned" /\ op.fn = "transpose twice"
    /\ n = 2 /\ NumCols(a) = 3
    /\ a[0][1] # a[1][0]
    /\ NumRows(op.first) = 3 /\ NumCols(op.first) = 2

(***************************************************************************)
(* C13.  Matrix equality with tolerance zero: a == b is true exactly when  *)
(* all corresponding elements are equal, a == a is true, and a != b is     *)
(* true exactly when some element differs.                                 *)
(***************************************************************************)
EqualityIsExact ==
    (op.pc = "returned" /\ op.fn = "equals") =>
        /\ op.result = (\A i \in DOMAIN a : \A j \in DOMAIN a[i] : a[i][j] = b[i][j])
        /\ op.self = TRUE
        /\ op.differs = (\E i \in DOMAIN a : \E j \in DOMAIN a[i] : a[i][j] # b[i][j])

\* two matrices that differ by epsilon in their last element only compare unequal
EqualityWitness ==
    /\ op.pc = "returned" /\ op.fn = "equals" /\ op.result = FALSE /\ op.differs = TRUE
    /\ n >= 2 /\ NumCols(a) >= 2
    /\ b[n - 1][NumCols(a) - 1] = RAdd(a[n - 1][NumCols(a) - 1], Epsilon)

(***************************************************************************)
(* C14.  tensor(u, v), for u of dimension p and v of dimension q, also     *)
(* when p # q, has p rows and q columns with element (i, j) = u[i] * v[j]  *)
(* and reads no component outside u[0 .. p-1] and v[0 .. q-1].             *)
(***************************************************************************)
TensorIsOuterProduct ==
    (op.pc = "returned" /\ op.fn = "tensor") =>
        /\ DOMAIN op.result = DOMAIN op.u
        /\ \A i \in DOMAIN op.result :
              /\ DOMAIN op.result[i] = DOMAIN op.v
              /\ \A j \in DOMAIN op.result[i] :
                    op.result[i][j] = RMul(op.u[i], op.v[j])
        /\ ~op.outside

(***************************************************************************)
(* C15.  In rotation(x, y, z, order) the three digits of order give, for   *)
(* the X, Y and Z rotation in turn, the position at which it is applied    *)
(* (1 first, 3 last); so the default order 312 applies Y first, then Z,    *)
(* then X and returns Rx * Rz * Ry.                                        *)
(***************************************************************************)
\* the rotation applied at position p under `order`
AppliedAt(dim, x, y, z, order, p) ==
    IF order \div 100 = p THEN RotationX(dim, x)
    ELSE IF (order \div 10) % 10 = p THEN RotationY(dim, y)
    ELSE RotationZ(dim, z)

EulerDigitsArePositions ==
    (op.pc = "returned" /\ op.fn = "euler") =>
        /\ op.order \in ValidOrders =>
              op.result = MatMul(MatMul(AppliedAt(n, op.x, op.y, op.z, op.order, 3),
                                        AppliedAt(n, op.x, op.y, op.z, op.order, 2)),
                                 AppliedAt(n, op.x, op.y, op.z, op.order, 1))
        /\ op.defaulted =>
              op.result = MatMul(MatMul(RotationX(n, op.x), RotationZ(n, op.z)),
                                 RotationY(n, op.y))

(***************************************************************************)
(* C16.  For an order other than 123, 132, 213, 231, 312, 321 the Euler    *)
(* rotation logs an error and returns the matrix of the default ordering,  *)
(* the one rotation(x, y, z) returns with the default order 312.           *)
(***************************************************************************)
InvalidOrderGivesDefault ==
    (op.pc = "returned" /\ op.fn = "euler" /\ op.order \notin ValidOrders) =>
        /\ op.logged
        /\ op.result = EulerRotation(n, op.x, op.y, op.z, DefaultOrder).result

(***************************************************************************)
(* C17.  Mat3 constructed from a 2 x 2 matrix rhs has rhs as its upper     *)
(* left 2 x 2 block, zeros at (0,2), (1,2), (2,0), (2,1) and one at (2,2), *)
(* every one of the nine elements being assigned; so Mat3(rhs).sub() is    *)
(* rhs.                                                                    *)
(***************************************************************************)
Mat3ExtendsMat2 ==
    /\ (op.pc = "returned" /\ op.fn = "Mat3(Mat2)") =>
          /\ \A i, j \in Idx(2) : op.result[i][j] = op.rhs[i][j]
          /\ \A i \in Idx(2) : op.result[i][2] = Zero /\ op.result[2][i] = Zero
          /\ op.result[2][2] = One
          /\ op.assigned = Idx(3) \X Idx(3)
    /\ (op.pc = "returned" /\ op.fn = "Mat3(Mat2).sub()") => op.sub = op.rhs

(***************************************************************************)
(* C18.  Mat4::scale(s) is the uniform scale matrix whose x, y, z and w    *)
(* scale all equal s: it equals Mat4::scale(s, s, s, s) and                *)
(* Mat4::scale(Vec<4>(s, s, s, s)).                                        *)
(***************************************************************************)
UniformScaleIsFourfold ==
    (op.pc = "returned" /\ op.fn = "scale") =>
        /\ op.result = op.fourfold
        /\ op.result = op.vec
        /\ \A i \in Idx(4) : op.result[i][i] = op.s

(***************************************************************************)
(* C19.  Mat4(s, r, t) equals translation(t) * Mat4(R) *                   *)
(* scale(s[0], s[1], s[2], 1), where R is the 3 x 3 rotation matrix of the *)
(* unit quaternion r (R * v is the vector part of r * v * conjugate(r)),   *)
(* and its last row is (0, 0, 0, 1).                                       *)
(***************************************************************************)
\* Hamilton product of the quaternions p and q, each <<x, y, z, w>>
QuatMul(p, q) ==
    << (((p[4] ** q[1]) ++ (p[1] ** q[4])) ++ (p[2] ** q[3])) -- (p[3] ** q[2]),
       (((p[4] ** q[2]) ++ (p[2] ** q[4])) ++ (p[3] ** q[1])) -- (p[1] ** q[3]),
       (((p[4] ** q[3]) ++ (p[3] ** q[4])) ++ (p[1] ** q[2])) -- (p[2] ** q[1]),
       (((p[4] ** q[4]) -- (p[1] ** q[1])) -- (p[2] ** q[2])) -- (p[3] ** q[3]) >>

Conjugate(q) == <<RNeg(q[1]), RNeg(q[2]), RNeg(q[3]), q[4]>>

\* q * (v, 0) * conjugate(q) for the vector v = <<v1, v2, v3>>
RotateByQuat(q, v) == QuatMul(QuatMul(q, <<v[1], v[2], v[3], Zero>>), Conjugate(q))

\* column j of R is the image of the j-th unit vector under q
IsRotationOf(R, q) ==
    \A j \in Idx(3) :
        LET e == [k \in 1 .. 3 |-> IF k = j + 1 THEN One ELSE Zero]
            img == RotateByQuat(q, e)
        IN  /\ img[4] = Zero
            /\ \A i \in Idx(3) : R[i][j] = img[i + 1]

ComposeIsTranslateRotateScale ==
    (op.pc = "returned" /\ op.fn = "Mat4(s,rot,t)") =>
        /\ op.result = op.product
        /\ IsRotationOf(op.R, op.rot)
        /\ \A j \in Idx(4) : op.result[3][j] = (IF j = 3 THEN One ELSE Zero)

ComposeWitness ==
    /\ op.pc = "returned" /\ op.fn = "Mat4(s,rot,t)"
    /\ op.rot = <<<<1, 2>>, <<1, 2>>, <<1, 2>>, <<1, 2>>>>
    /\ op.s = <<Two, <<1, 2>>, Two>>
    /\ op.t = <<Two, One, RNeg(One)>>
    /\ op.result = op.product
    /\ op.result[1][0] = Two /\ op.result[2][1] = <<1, 2>> /\ op.result[0][3] = Two

(***************************************************************************)
(* C20.  For a unit axis and an angle theta, Mat3::rotation(axis, -theta)  *)
(* is the transpose of Mat3::rotation(axis, theta), rotation(axis, -theta) *)
(* * rotation(axis, theta) * v = v for every vector v, and                 *)
(* rotation(axis, 0) is the identity.                                      *)
(***************************************************************************)
AxisRotationRoundTrip ==
    /\ (op.pc = "undone" /\ op.fn = "rotation(axis,angle)") =>
          /\ op.back = Transpose(op.result)
          /\ op.round = op.v
    /\ (op.pc \in {"returned", "undone"} /\ op.fn = "rotation(axis,angle)"
            /\ op.angle = <<One, Zero>>) =>
          op.result = Identity(3, 3)

AxisRotationWitness ==
    /\ op.pc = "undone" /\ op.fn = "rotation(axis,angle)"
    /\ op.axis[0] = <<1, 3>> /\ op.axis[1] = <<2, 3>>
    /\ op.angle = <<<<3, 5>>, <<4, 5>>>>
    /\ op.v[1] = Two
    /\ op.result # Identity(3, 3)
    /\ op.back # op.result
    /\ op.round = op.v

(***************************************************************************)
(* C21.  In-place use is safe: gauss_jordan_elimination with ainv = &a and *)
(* x = &b, lu_decomposition with alu = &a and lu_back_substitution with    *)
(* x = &b give the return value and the outputs of the same calls with     *)
(* separate output objects, at every step.                                 *)
(***************************************************************************)
InPlaceIsSafe ==
    /\ (op.pc = "run" /\ op.fn = "gj") =>
          /\ op.inp.st = op.sep.st
          /\ op.inp.objs.a = op.sep.objs.out
          /\ op.inp.objs.b = op.sep.objs.x
          /\ op.sep.objs.a = a /\ op.sep.objs.b = b
    /\ (op.pc \in {"run", "solved"} /\ op.fn = "lu") =>
          /\ op.inp.st = op.sep.st
          /\ op.inp.objs.a = op.sep.objs.out
          /\ op.sep.objs.a = a
    /\ (op.pc = "solved" /\ op.fn = "lu") =>
          /\ op.inp.objs.b = op.sep.objs.x
          /\ op.sep.objs.b = Col(b, 0)

\* gauss_jordan_elimination returned true in place after a row exchange, a
\* now holding the inverse and b the solution
InPlaceWitness ==
    /\ op.pc = "run" /\ op.fn = "gj" /\ n = 3
    /\ op.inp.st.pc = "returned" /\ op.inp.st.ret = TRUE
    /\ op.inp.objs.a # a /\ MatMul(a, op.inp.objs.a) = Identity(n, n)
    /\ op.inp.objs.b # b /\ MatMul(a, op.inp.objs.b) = b
    /\ SwapOccurred(op.inp.st)

\* the LU calls in place: a holds the factors and b the solution
InPlaceLUWitness ==
    /\ op.pc = "solved" /\ op.fn = "lu" /\ n = 3
    /\ op.inp.objs.a # a /\ op.inp.objs.b # Col(b, 0)
    /\ MatVec(a, op.inp.objs.b) = Col(b, 0)

(***************************************************************************)
(* C22.  As stated: the vector rowp returned by lu_decomposition holds,    *)
(* for each position i, the index of the original row of a that occupies   *)
(* position i of the permuted matrix whose factors are stored in alu.      *)
(***************************************************************************)
RowpIsPermutationVector ==
    (lu.pc \in {"returned", "solved"} /\ lu.ret = TRUE) =>
        \A i \in Idx(n) :
            Row(MatMul(LowerOf(lu.amat), UpperOf(lu.amat)), i) = Row(a, lu.rowp[i])

(***************************************************************************)
(* C22, as the code has it: rowp[j] is the index of the row exchanged with *)
(* row j at column j.  The original row at position i of the permuted      *)
(* matrix is found by applying the exchanges j <-> rowp[j], j = 0 .. N-1   *)
(* in this order, to the arrangement 0, 1, .. N-1; the arrangement         *)
(* obtained is a permutation, rowp itself need not be one.                 *)
(***************************************************************************)
RECURSIVE OriginalRows(_, _, _)
OriginalRows(rowp, dim, count) ==
    IF count = 0 THEN [i \in Idx(dim) |-> i]
    ELSE LET p == OriginalRows(rowp, dim, count - 1)
             j == count - 1
         IN  [p EXCEPT ![j] = p[rowp[j]], ![rowp[j]] = p[j]]

RowpRecordsExchanges ==
    (lu.pc \in {"returned", "solved"} /\ lu.ret = TRUE) =>
        LET perm == OriginalRows(lu.rowp, n, n)
            permuted == MatMul(LowerOf(lu.amat), UpperOf(lu.amat))
        IN  /\ { perm[i] : i \in Idx(n) } = Idx(n)
            /\ \A i \in Idx(n) : Row(permuted, i) = Row(a, perm[i])

\* a decomposition whose rowp repeats an index: rows 0 and 2, then rows 1 and 2
\* were exchanged, and position 1 holds the original row 0
RowpWitness ==
    /\ lu.pc = "returned" /\ lu.ret = TRUE /\ n = 3
    /\ lu.rowp[0] = 2 /\ lu.rowp[1] = 2 /\ lu.rowp[2] = 2
    /\ OriginalRows(lu.rowp, n, n)[1] = 0
    /\ Row(a, 0) # Row(a, 2)

(***************************************************************************)
(* C25.  LU bookkeeping: whenever lu_decomposition returns true, every     *)
(* recorded index satisfies j <= rowp[j] < N, and the sign d is +1 if the  *)
(* number of columns j with rowp[j] # j is even and -1 if it is odd.       *)
(***************************************************************************)
LUBookkeeping ==
    (lu.pc \in {"returned", "solved"} /\ lu.ret = TRUE) =>
        /\ \A j \in Idx(n) : lu.rowp[j] \in j .. (n - 1)
        /\ lu.d = (IF Cardinality({ j \in Idx(n) : lu.rowp[j] # j }) % 2 = 0
                   THEN One ELSE RNeg(One))

\* three exchanges in a 4 x 4 decomposition, the sign being -1
LUBookkeepingWitness ==
    /\ lu.pc = "returned" /\ lu.ret = TRUE /\ n = 4
    /\ Cardinality({ j \in Idx(n) : lu.rowp[j] # j }) = 3
    /\ lu.d = RNeg(One)

(***************************************************************************)
(* C26.  In inverse() and in gauss_jordan_elimination the pivot search of  *)
(* a step finishes without assigning maxr and maxc exactly when every      *)
(* candidate element (row not yet pivoted, column not yet pivoted) is      *)
(* zero; the step then goes on and reads them (++ipiv[maxc], the swap      *)
(* test, indxr, indxc, the singularity test) although they were never      *)
(* assigned.  Such a step is reached by the zero matrix at step 0 and by   *)
(* [[1,2],[2,4]] at step 1.  The zero meant is the stored one: as long as  *)
(* nothing was rounded a step whose candidates are all zero can only read  *)
(* the indices unassigned; after rounding a candidate that cancels to zero *)
(* may be stored as a residual, and the search then assigns its position   *)
(* and the step leaves by the singularity test.                            *)
(***************************************************************************)
AllCandidatesZero(mat, ipiv) ==
    \A j, k \in Idx(n) : (ipiv[j] # 1 /\ ipiv[k] = 0) => mat[j][k] = Zero

\* the search on the values mat assigns nothing exactly when they are all
\* zero, and no search can assign exactly when, besides, nothing was rounded
SearchAssignsNothingOnZeros(mat, ipiv, rounded) ==
    /\ ~PivotSearch(mat, ipiv, n).assigned <=> AllCandidatesZero(mat, ipiv)
    /\ PivotCandidates(mat, ipiv, n, rounded) = {}
          <=> (AllCandidatesZero(mat, ipiv) /\ ~rounded)

\* a step that read the indices unassigned recorded what it read, and
\* incremented ipiv[maxc] when maxc was an index
UnassignedWasRead(pc, ipiv, indxr, indxc, before, marks, steps) ==
    /\ AllCandidatesZero(before, marks)
    /\ pc # "abort" =>
          /\ indxr[steps - 1] \in 0 .. n /\ indxc[steps - 1] \in 0 .. n
          /\ indxc[steps - 1] \in Idx(n) => ipiv # marks

UnassignedPivotIsRead ==
    /\ gj.pc = "loop" => SearchAssignsNothingOnZeros(gj.amat, gj.ipiv, gj.rounded)
    /\ inv.pc = "loop" => SearchAssignsNothingOnZeros(inv.result, inv.ipiv, inv.rounded)
    /\ (op.pc = "run" /\ op.read.gj) =>
          UnassignedWasRead(gj.pc, gj.ipiv, gj.indxr, gj.indxc, op.before.gj, op.ipiv.gj,
                            op.steps)
    /\ (op.pc = "run" /\ op.read.inv) =>
          UnassignedWasRead(inv.pc, inv.ipiv, inv.indxr, inv.indxc, op.before.inv,
                            op.ipiv.inv, op.steps)
    /\ (op.pc = "run" /\ op.residual.gj) =>
          /\ ~op.read.gj /\ AllCandidatesZero(op.before.gj, op.ipiv.gj)
          /\ op.ipiv.gj[gj.indxr[op.steps - 1]] # 1 /\ op.ipiv.gj[gj.indxc[op.steps - 1]] = 0
          /\ gj.pc = "returned" /\ gj.ret = FALSE
    /\ (op.pc = "run" /\ op.residual.inv) =>
          /\ ~op.read.inv /\ AllCandidatesZero(op.before.inv, op.ipiv.inv)
          /\ op.ipiv.inv[inv.indxr[op.steps - 1]] # 1
          /\ op.ipiv.inv[inv.indxc[op.steps - 1]] = 0
          /\ inv.pc = "returned" /\ inv.logged

\* [[1,2],[2,4]]: step 1 has read maxr and maxc unassigned
UnassignedPivotWitness ==
    /\ a = Singular2 /\ op.pc = "run" /\ op.read.gj /\ op.read.inv /\ op.steps = 2
    /\ op.before.gj # ZeroMat(2)
    /\ gj.pc # "abort" /\ inv.pc # "abort"
    /\ gj.indxc[1] \in Idx(n) /\ inv.indxc[1] \in Idx(n)

\* the zero matrix: step 0 has read maxr and maxc unassigned
UnassignedPivotZeroWitness ==
    /\ a = ZeroMat(n) /\ op.pc = "run" /\ op.read.gj /\ op.read.inv /\ op.steps = 1
    /\ gj.pc # "abort" /\ inv.pc # "abort"
    /\ gj.indxc[0] \in Idx(n) /\ inv.indxc[0] \in Idx(n)

\* [-1 2 -1; 1 2 2; 1 2 2]: the candidate of step 2 cancels to zero after a
\* rounded 1/3; stored as zero, the step has read maxr and maxc unassigned
UnassignedPivotRoundedWitness ==
    /\ a = Residual3 /\ op.pc = "run" /\ op.read.gj /\ op.read.inv /\ op.steps = 3
    /\ ~op.residual.gj /\ ~op.residual.inv
    /\ gj.pc = "unscramble" /\ inv.pc = "unscramble"

\* the same step with the candidate stored as a residual: the search has
\* assigned its position (0, 0) and both functions left by the singularity
\* test
UnassignedPivotResidualWitness ==
    /\ a = Residual3 /\ op.pc = "run" /\ op.residual.gj /\ op.residual.inv
    /\ ~op.read.gj /\ ~op.read.inv /\ op.steps = 3
    /\ gj.indxr[2] = 0 /\ gj.indxc[2] = 0 /\ inv.indxr[2] = 0 /\ inv.indxc[2] = 0
    /\ gj.pc = "returned" /\ gj.ret = FALSE /\ inv.logged

(***************************************************************************)
(* C27.  Full-pivoting bookkeeping: on every run of inverse() and of       *)
(* gauss_jordan_elimination in which each pivot search finds a non-zero    *)
(* candidate, the entries of ipiv are 0 or 1, after step i exactly i + 1   *)
(* of them are 1, the pivot of each step is the largest-magnitude element  *)
(* over the rows and columns not yet pivoted, and the pivot columns        *)
(* indxc[0 .. N-1] are a permutation of 0 .. N-1.  A candidate that is a   *)
(* residual of the rounding is a non-zero candidate of the code, and zero  *)
(* in the exact values of `before`.                                        *)
(***************************************************************************)
\* the bookkeeping after `steps` iterations that started, the last one, from
\* the matrix `before` with the markers `marks`; residual is whether its
\* search assigned from a residual
BookkeepingHolds(ipiv, indxr, indxc, before, marks, steps, residual) ==
    /\ \A k \in Idx(n) : ipiv[k] \in {0, 1}
    /\ Cardinality({ k \in Idx(n) : ipiv[k] = 1 }) = steps
    /\ { indxc[i] : i \in Idx(steps) } = { k \in Idx(n) : ipiv[k] = 1 }
    /\ steps = n => { indxc[i] : i \in Idx(n) } = Idx(n)
    /\ steps >= 1 =>
          LET r == indxr[steps - 1]
              c == indxc[steps - 1]
          IN  /\ marks[r] = 0 /\ marks[c] = 0
              /\ before[r][c] = Zero <=> residual
              /\ \A j, k \in Idx(n) :
                    (marks[j] = 0 /\ marks[k] = 0) =>
                        RGe(RAbs(before[r][c]), RAbs(before[j][k]))

PivotBookkeeping ==
    (op.pc = "run" /\ ~op.unassigned) =>
        /\ BookkeepingHolds(gj.ipiv, gj.indxr, gj.indxc, op.before.gj, op.ipiv.gj, op.steps,
                            op.residual.gj)
        /\ BookkeepingHolds(inv.ipiv, inv.indxr, inv.indxc, op.before.inv, op.ipiv.inv,
                            op.steps, op.residual.inv)

\* a complete 3 x 3 run whose pivots are not on the diagonal in order
PivotBookkeepingWitness ==
    /\ op.pc = "run" /\ ~op.unassigned /\ n = 3 /\ op.steps = 3
    /\ gj.pc = "returned" /\ gj.ret = TRUE /\ inv.pc = "returned"
    /\ gj.indxc[0] = 2 /\ gj.indxc[1] = 0
    /\ SwapOccurred(gj)

\* a 3 x 3 run whose last search finds only a residual of the rounding: the
\* bookkeeping holds for the position it assigned
PivotBookkeepingResidualWitness ==
    /\ op.pc = "run" /\ ~op.unassigned /\ a = Residual3 /\ op.steps = 3
    /\ op.residual.gj /\ op.residual.inv
    /\ op.before.gj[gj.indxr[2]][gj.indxc[2]] = Zero
    /\ gj.pc = "returned" /\ gj.ret = FALSE /\ inv.pc = "returned" /\ inv.logged

(***************************************************************************)
(* C30.  gauss_jordan_elimination and inverse() apply the same pivoting    *)
(* and the same epsilon policy: for every a and b, the two functions       *)
(* choose the same pivots, gauss_jordan_elimination returns false exactly  *)
(* when inverse(a) takes its "input matrix is singular" exit, and when it  *)
(* returns true *ainv equals inverse(a) element for element; b influences  *)
(* neither the pivots nor *ainv.                                           *)
(***************************************************************************)
\* what the iterations of another call find in maxr and maxc where rounding
\* decides, in the build in which the call st found what it recorded
SameBuild(st, steps) ==
    [i \in Idx(n) |->
        IF i < steps
        THEN [maxr |-> st.indxr[i], maxc |-> st.indxc[i], noticed |-> TRUE, ret |-> FALSE,
              residual |-> TRUE]
        ELSE NoticedRead(n)]

SamePivotingPolicy ==
    op.pc = "run" =>
        /\ gj.pc = inv.pc
        /\ gj.amat = inv.result
        /\ gj.ipiv = inv.ipiv /\ gj.indxr = inv.indxr /\ gj.indxc = inv.indxc
        /\ gj.pc = "returned" =>
              /\ gj.ret = ~inv.logged
              /\ inv.logged => LtEpsilon(RAbs(inv.result[inv.indxc[op.steps - 1]]
                                                        [inv.indxc[op.steps - 1]]))
              /\ ~op.unassigned =>
                    \A other \in RhsInputs(n) :
                        LET run == GaussJordan(a, other, n, SameBuild(gj, op.steps))
                        IN  /\ run.ret = gj.ret /\ run.amat = gj.amat
                            /\ run.indxr = gj.indxr /\ run.indxc = gj.indxc

\* a 3 x 3 inverse obtained by both functions after an exchange of rows
SamePivotingWitness ==
    /\ op.pc = "run" /\ n = 3 /\ ~op.unassigned
    /\ gj.pc = "returned" /\ gj.ret = TRUE /\ inv.pc = "returned" /\ ~inv.logged
    /\ SwapOccurred(gj)
    /\ gj.amat = inv.result /\ MatMul(a, inv.result) = Identity(n, n)
    /\ gj.bmat # b

\* the non-singular matrix with a pivot below epsilon, rejected by both
SamePivotingEpsilonWitness ==
    /\ op.pc = "run" /\ a = TinyPivot(n) /\ NonSingular(a)
    /\ gj.pc = "returned" /\ gj.ret = FALSE /\ inv.pc = "returned" /\ inv.logged

(***************************************************************************)
(* C28.  For every input A, whatever the returned flag, after              *)
(* cholesky_decompose(A, L) every element of L strictly above the diagonal *)
(* is zero, and every diagonal element L(j, j) is the square root of       *)
(* A(j, j) minus the squares of the elements left of it in row j, clamped  *)
(* to be non-negative (zero when that value is negative or not a number).  *)
(***************************************************************************)
RECURSIVE SumOfSquares(_, _)
\* the sum of the squares of the first count components of row
SumOfSquares(row, count) ==
    IF count = 0 THEN Zero
    ELSE RAdd(SumOfSquares(row, count - 1), RMul(row[count - 1], row[count - 1]))

CholeskyUpperZeroDiagonalClamped ==
    ch.pc = "returned" =>
        \A j \in Idx(n) :
            LET d == RSub(a[j][j], SumOfSquares(ch.L[j], j))
            IN  /\ \A k \in Idx(n) : k > j => ch.L[j][k] = Zero
                /\ IsFinite(ch.L[j][j]) /\ RGe(ch.L[j][j], Zero)
                /\ RMul(ch.L[j][j], ch.L[j][j]) = (IF RGt(d, Zero) THEN d ELSE Zero)

\* a rejected 3 x 3 input: a negative value was clamped at row 1, L(1,1) is
\* zero, and the division by it left a non-finite element in row 2
CholeskyClampWitness ==
    /\ ch.pc = "returned" /\ ch.ret = FALSE /\ n = 3
    /\ RLt(RSub(a[1][1], SumOfSquares(ch.L[1], 1)), Zero)
    /\ ch.L[1][1] = Zero
    /\ ~IsFinite(ch.L[2][1])
    /\ ch.L[2][2] = Zero /\ ch.L[0][0] # Zero

(***************************************************************************)
(* C29.  The closed-form inverse of Mat2, Mat3 and Mat4 never executes the *)
(* division 1 / determinant with a zero determinant: whenever a call has   *)
(* returned, the divisor of its division was not zero.                      *)
(***************************************************************************)
ClosedInverseRejectsZeroDeterminant ==
    op.pc = "returned" => Plain(op.divisor) # Zero

(***************************************************************************)
(* C23.  On one SplineCurveInterpolation object set_boundary is legal only *)
(* before set_points: the condition of the assertion of a set_boundary     *)
(* call is false exactly when some earlier set_points accepted its data    *)
(* (calls that returned early do not count); the call aborts exactly when  *)
(* it is false and assert is compiled in, and nothing else aborts; a call  *)
(* that meets the assertion returns with its arguments in the object; and  *)
(* every set_points that accepts its data gives each of the N              *)
(* interpolators the boundary types and values of the last set_boundary    *)
(* that returned (the constructor's defaults if there was none), which     *)
(* they keep until the next set_points that accepts.                       *)
(***************************************************************************)
BoundaryTypeOf(name) == IF name = "first_deriv" THEN first_deriv ELSE second_deriv

BoundaryGiven(it) ==
    <<BoundaryTypeOf(it.left), it.left_value, BoundaryTypeOf(it.right), it.right_value>>

IsSetPoints(call) == call.fn \in {"set_points", "set_points_by_length"}

BoundaryOnlyBeforePoints ==
    /\ op.last.fn = "set_boundary" =>
          /\ op.last.violated <=> op.had_points
          /\ (op.pc = "abort") <=> (op.last.violated /\ ~op.ndebug)
          /\ ~op.last.violated =>
                /\ op.last.accepted
                /\ <<op.obj.left_, op.obj.left_value_,
                      op.obj.right_, op.obj.right_value_>> = op.requested
    /\ op.pc = "abort" => op.last.fn = "set_boundary"
    /\ (IsSetPoints(op.last) /\ op.last.accepted) =>
          /\ op.had_points
          /\ op.handed = op.requested
    /\ op.had_points =>
          /\ Len(op.obj.interpolators_) = n
          /\ \A i \in 1 .. n :
                 /\ op.obj.interpolators_[i].left \in {"first_deriv", "second_deriv"}
                 /\ op.obj.interpolators_[i].right \in {"first_deriv", "second_deriv"}
                 /\ BoundaryGiven(op.obj.interpolators_[i]) = op.handed
    /\ ~op.had_points => op.obj.interpolators_ = <<>>

\* set_points returned early, set_boundary was then accepted with a first
\* derivative on the left and a second derivative on the right, set_points
\* accepted 2-D data and handed that boundary on, and a further set_boundary
\* violated the assertion and aborted
BoundaryWitness ==
    /\ op.pc = "abort" /\ op.last.fn = "set_boundary" /\ n = 2
    /\ op.last.violated /\ ~op.ndebug
    /\ op.boundary_after_early /\ op.had_points
    /\ op.requested = <<first_deriv, 1, second_deriv, 0>>
    /\ \A i \in 1 .. 2 : BoundaryGiven(op.obj.interpolators_[i]) = op.requested

\* with NDEBUG a set_boundary after accepted data returned with other
\* arguments in the object, and the interpolators still hold the boundary
\* they were given
BoundaryNDebugWitness ==
    /\ op.pc = "ready" /\ op.last.fn = "set_boundary" /\ op.ndebug
    /\ op.last.violated /\ op.last.accepted /\ op.had_points
    /\ op.obj.left_ = first_deriv /\ op.obj.left_value_ = 1
    /\ op.requested # op.handed
    /\ \A i \in 1 .. n : BoundaryGiven(op.obj.interpolators_[i]) = op.handed

\* with NDEBUG the boundary of a set_boundary made after accepted data was
\* handed to the interpolators by a later set_points
BoundaryLateWitness ==
    /\ IsSetPoints(op.last) /\ op.last.accepted /\ op.ndebug
    /\ op.handed = <<second_deriv, 0, first_deriv, 1>>
    /\ op.boundary_after_early
    /\ \A i \in 1 .. n : BoundaryGiven(op.obj.interpolators_[i]) = op.handed

(***************************************************************************)
(* C24.  set_points hands the interpolators only monotonously increasing   *)
(* data.  After a call that accepted its input: the parameters handed over *)
(* are those of sample 0 and of the samples greater than every sample      *)
(* before them (which is: greater than the last kept one), in order, so    *)
(* they are strictly increasing; coordinate j of kept sample k is          *)
(* coordinate j of the input point that came with that parameter;          *)
(* largest_t_ is the maximum input parameter; the number of discarded      *)
(* samples is input size minus kept size; dim_ is N.  A call returns early *)
(* exactly when its input is empty or of mismatched sizes (fewer than two  *)
(* points for the accumulated-length overload), and then dim_, largest_t_  *)
(* and the interpolators are unchanged.                                    *)
(***************************************************************************)
KeptIndices(parameters) ==
    {i \in 1 .. Len(parameters) : \A j \in 1 .. i - 1 : parameters[j] < parameters[i]}

\* the k-th smallest element of a set of indices
NthOf(indices, k) ==
    CHOOSE i \in indices : Cardinality({j \in indices : j <= i}) = k

MaxOf(parameters) ==
    CHOOSE v \in {parameters[i] : i \in 1 .. Len(parameters)} :
        \A i \in 1 .. Len(parameters) : parameters[i] <= v

OnlyIncreasingData ==
    /\ (IsSetPoints(op.last) /\ op.last.accepted) =>
          LET parameters == op.last.parameters
              points == op.last.points
              kept == KeptIndices(parameters)
              count == Cardinality(kept)
          IN  /\ parameters # <<>> /\ Len(parameters) = Len(points)
              /\ ~op.last.empty /\ ~op.last.mismatched
              /\ op.obj.dim_ = n
              /\ op.obj.largest_t_ = MaxOf(parameters)
              /\ op.last.diff = Len(parameters) - count
              /\ \A i \in 1 .. n :
                     LET it == op.obj.interpolators_[i]
                     IN  /\ Len(it.x) = count /\ Len(it.y) = count
                         /\ \A k \in 1 .. count :
                                /\ it.x[k] = parameters[NthOf(kept, k)]
                                /\ it.y[k] = points[NthOf(kept, k)][i]
                         /\ \A k \in 1 .. count - 1 : it.x[k] < it.x[k + 1]
    /\ (op.last.fn = "set_points" /\ ~op.last.accepted) =>
          (op.last.empty \/ op.last.mismatched)
    /\ (IsSetPoints(op.last) /\ ~op.last.accepted) => ~op.last.changed

\* 2-D samples with parameters 2, 0, 1 were accepted: the third is greater
\* than the second but not than the last one kept, and both are discarded
IncreasingDataWitness ==
    /\ op.last.fn = "set_points" /\ op.last.accepted /\ n = 2
    /\ op.last.parameters = <<2, 0, 1>>
    /\ op.last.diff = 2
    /\ op.obj.interpolators_[2].x = <<2>>

\* samples with parameters 0, 2, 1 were accepted: two are kept and the
\* largest parameter is not that of the last sample
IncreasingDataMiddleWitness ==
    /\ op.last.fn = "set_points" /\ op.last.accepted
    /\ op.last.parameters = <<0, 2, 1>>
    /\ op.obj.largest_t_ = 2
    /\ op.obj.interpolators_[1].x = <<0, 2>>
    /\ op.obj.interpolators_[1].y = <<11, 21>>

\* a call with mismatched sizes returned early on an object that holds data
EarlyReturnWitness ==
    /\ op.last.fn = "set_points" /\ ~op.last.accepted /\ op.last.mismatched
    /\ op.had_points /\ op.obj.largest_t_ = 2 /\ op.obj.dim_ = 2

\* the accumulated-length overload discarded a repeated point
RepeatedPointWitness ==
    /\ op.last.fn = "set_points_by_length" /\ op.last.accepted /\ n = 2
    /\ op.last.parameters = <<0, 5, 5>>
    /\ op.last.diff = 1

=============================================================================
